---- MODULE Spec2Model ----
(***************************************************************************)
(* A model of the SPICE netlist reader of the reda repository: the nom     *)
(* combinator primitives of parse/base.rs, the grammar productions built   *)
(* on them, and the driver loop of read_spice.                             *)
(*                                                                         *)
(* Text is a sequence of one-character strings.  A parser takes the        *)
(* remaining input and returns one of                                      *)
(*   [tag |-> "Ok", rest, val]       the value and the unconsumed input    *)
(*   [tag |-> "Error", at, ctx]      nom::Err::Error, recoverable          *)
(*   [tag |-> "Failure", at, ctx]    nom::Err::Failure, fatal              *)
(*   [tag |-> "Panic", at, ctx]      no return: the process aborts         *)
(* where `at` is the input slice of the first entry of the VerboseError    *)
(* (errors[0], the innermost one) and ctx its label.                       *)
(***************************************************************************)
EXTENDS Integers, Sequences, FiniteSets, TLC

VARIABLES
    full_input,   \* read_spice: the whole text handed to read_spice
    input,        \* read_spice: the unconsumed rest of full_input
    spice,        \* read_spice: the Spice document built so far
    result,       \* read_spice: "running", or the value read_spice returned
    trace,        \* read_spice: outcome of every statement() call so far
    base_input,   \* the same statements as full_input, one per line
    stmts,        \* the statements full_input was written from
    p_in,         \* a production call: its input (with what it was built from)
    p_fn,         \* a production call: the production applied, "none" before
    p_out,        \* a production call: what the production returned
    p_back        \* a production call: the result written back as text, read again

vars == <<full_input, input, spice, result, trace, base_input, stmts, p_in, p_fn, p_out, p_back>>

(***************************************************************************)
(* Characters and slices                                                   *)
(***************************************************************************)
LowerSeq == <<"a","b","c","d","e","f","g","h","i","j","k","l","m","n","o","p","q","r","s","t","u","v","w","x","y","z">>
UpperSeq == <<"A","B","C","D","E","F","G","H","I","J","K","L","M","N","O","P","Q","R","S","T","U","V","W","X","Y","Z">>
DigitSeq == <<"0","1","2","3","4","5","6","7","8","9">>
Lower == {LowerSeq[i] : i \in 1..Len(LowerSeq)}
Upper == {UpperSeq[i] : i \in 1..Len(UpperSeq)}
Digit == {DigitSeq[i] : i \in 1..Len(DigitSeq)}
Alpha == Lower \cup Upper
Alnum == Alpha \cup Digit

\* A character outside ASCII (and the two control characters U+000B and
\* U+000C) is written as a name: "OHM" is U+03A9 (the capital omega of the
\* suffix tables), "ohm" is U+03C9 (the small omega), and "U+XXXX" is the
\* character of that code point.  TwoBytes and ThreeBytes are the ones UTF-8
\* encodes in 2 and in 3 bytes; every other character of the model takes 1.
TwoBytes == {"OHM", "ohm", "U+0085", "U+00A0", "U+00C9", "U+00E9", "U+0130", "U+0307"}
ThreeBytes ==
    {"U+1680", "U+2000", "U+2001", "U+2002", "U+2003", "U+2004", "U+2005", "U+2006",
     "U+2007", "U+2008", "U+2009", "U+200A", "U+2028", "U+2029", "U+202F", "U+205F",
     "U+3000", "U+2126", "U+212A"}

\* Rust's char::is_whitespace: the characters of the Unicode property
\* White_Space
White ==
    {" ", "\t", "\r", "\n", "U+000B", "U+000C", "U+0085", "U+00A0", "U+1680",
     "U+2000", "U+2001", "U+2002", "U+2003", "U+2004", "U+2005", "U+2006",
     "U+2007", "U+2008", "U+2009", "U+200A", "U+2028", "U+2029", "U+202F", "U+205F",
     "U+3000"}

IndexIn(seq, c) == CHOOSE i \in 1..Len(seq) : seq[i] = c

to_ascii_lowercase(c) == IF c \in Upper THEN LowerSeq[IndexIn(UpperSeq, c)] ELSE c
to_ascii_uppercase(c) == IF c \in Lower THEN UpperSeq[IndexIn(LowerSeq, c)] ELSE c
\* char::to_lowercase: the characters the lower-case mapping of Unicode
\* gives for c.  The capital omega and the ohm sign U+2126 lower to the
\* small omega, the kelvin sign U+212A to "k", U+00C9 to U+00E9, and U+0130
\* to the two characters "i" U+0307
to_lowercase(c) ==
    IF c \in {"OHM", "U+2126"} THEN <<"ohm">>
    ELSE IF c = "U+212A" THEN <<"k">>
    ELSE IF c = "U+00C9" THEN <<"U+00E9">>
    ELSE IF c = "U+0130" THEN <<"i", "U+0307">>
    ELSE <<to_ascii_lowercase(c)>>

\* char::len_utf8 and str::len: lengths in bytes
len_utf8(c) == IF c \in TwoBytes THEN 2 ELSE IF c \in ThreeBytes THEN 3 ELSE 1
str_len(s) ==
    Len(s) + Cardinality({i \in 1..Len(s) : s[i] \in TwoBytes})
           + 2 * Cardinality({i \in 1..Len(s) : s[i] \in ThreeBytes})

Drop(s, n) == SubSeq(s, n + 1, Len(s))
Take(s, n) == SubSeq(s, 1, n)

\* a local binding: Val([x \in {v} |-> body]) is body with x bound to the
\* value v, which is computed once
Val(f) == f[CHOOSE x \in DOMAIN f : TRUE]
Min(S) == CHOOSE k \in S : \A j \in S : k <= j
Max(S) == CHOOSE k \in S : \A j \in S : k >= j

\* number of leading characters of s that lie in the set S
SpanLen(s, S) ==
    Val([stop \in {{k \in 1..Len(s) : s[k] \notin S}} |->
        IF stop = {} THEN Len(s) ELSE Min(stop) - 1])

\* number of leading characters of s that do not lie in the set T
SpanUntil(s, T) ==
    Val([stop \in {{k \in 1..Len(s) : s[k] \in T}} |->
        IF stop = {} THEN Len(s) ELSE Min(stop) - 1])

\* number of trailing characters of s that lie in the set S
SpanLenEnd(s, S) ==
    Val([stop \in {{k \in 1..Len(s) : s[k] \notin S}} |->
        IF stop = {} THEN Len(s) ELSE Len(s) - Max(stop)])

starts_with(s, t) == Len(s) >= Len(t) /\ \A i \in 1..Len(t) : s[i] = t[i]
ends_with(s, t) ==
    Len(s) >= Len(t) /\ \A i \in 1..Len(t) : s[Len(s) - Len(t) + i] = t[i]
\* nom's compare_no_case of the text s with the tag t: the characters are
\* compared pairwise as far as both texts go, then the lengths in bytes
compare_no_case(s, t) ==
    IF \E i \in 1..Len(t) : i <= Len(s) /\ to_lowercase(s[i]) # to_lowercase(t[i])
    THEN "Error"
    ELSE IF str_len(s) >= str_len(t) THEN "Ok"
    ELSE "Incomplete"
eq_ignore_ascii_case(s, t) ==
    Len(s) = Len(t) /\ \A i \in 1..Len(t) : to_ascii_lowercase(s[i]) = to_ascii_lowercase(t[i])
str_to_ascii_lowercase(s) == [i \in 1..Len(s) |-> to_ascii_lowercase(s[i])]
str_to_ascii_uppercase(s) == [i \in 1..Len(s) |-> to_ascii_uppercase(s[i])]

trim_start(s) == Drop(s, SpanLen(s, White))
trim_end(s) == Take(s, Len(s) - SpanLenEnd(s, White))
trim(s) == trim_end(trim_start(s))

\* index of the first "\n" of s, 0 if there is none (str::find)
find_newline(s) ==
    Val([at \in {{k \in 1..Len(s) : s[k] = "\n"}} |->
        IF at = {} THEN 0 ELSE Min(at)])

(***************************************************************************)
(* Results                                                                 *)
(***************************************************************************)
Ok(rest, val) == [tag |-> "Ok", rest |-> rest, val |-> val]
Error(at, ctx) == [tag |-> "Error", at |-> at, ctx |-> ctx]
Failure(at, ctx) == [tag |-> "Failure", at |-> at, ctx |-> ctx]
\* the abort of the process (a panic): of a slice that does not end between
\* two characters, or of unwrap() on an Err
Panic(at, ctx) == [tag |-> "Panic", at |-> at, ctx |-> ctx]
None == [some |-> FALSE]
Some(v) == [some |-> TRUE, v |-> v]

\* a to_failure that promotes nothing (what the parsers would do without
\* the commitment): used to show that the promotion matters
error_kept(r) == r

to_failure(r) == IF r.tag = "Error" THEN Failure(r.at, r.ctx) ELSE r

\* The ? operator is written out where it is used: IF r.tag # "Ok" THEN r
\* returns an error at once, ELSE goes on with the value.

\* wrap_parser!: an error of the wrapped parser is replaced by one at the
\* wrapped parser's own input, labelled ctx; its class is kept
wrap_parser(r, in, ctx) ==
    IF r.tag = "Ok" THEN r
    ELSE IF r.tag = "Error" THEN Error(in, ctx)
    ELSE IF r.tag = "Failure" THEN Failure(in, ctx)
    ELSE r

\* A loop of the source is also modelled one iteration at a time: an
\* iteration either goes on with a new loop state or leaves the loop
Continue(in, acc) == [loop |-> "continue", input |-> in, acc |-> acc]
Break(out) == [loop |-> "break", out |-> out]

(***************************************************************************)
(* Whitespace                                                              *)
(***************************************************************************)
\* skippers that know no line continuation: the first stops in front of
\* every newline, the second (nom's multispace0) skips every newline
space_skip(s, i) == i + SpanLen(Drop(s, i - 1), {" ", "\t", "\r"})
multispace_skip(s, i) == i + SpanLen(Drop(s, i - 1), {" ", "\t", "\r", "\n"})

RECURSIVE smart_skip(_, _)
\* the loop of smart_space0 on s from index i: the index it stops at
smart_skip(s, i) ==
    IF i > Len(s) THEN i
    ELSE IF s[i] \in {" ", "\t", "\r"} THEN smart_skip(s, i + 1)
    ELSE IF s[i] = "\n" THEN
        IF i + 1 <= Len(s) /\ s[i + 1] = "+"
        THEN smart_skip(s, i + 2 + SpanLen(Drop(s, i + 1), {" ", "\t"}))
        ELSE i
    ELSE i

smart_space0(in) == Ok(Drop(in, smart_skip(in, 1) - 1), <<>>)

hws(inner(_), in) ==
    Val([r \in {inner(smart_space0(in).rest)} |-> IF r.tag # "Ok" THEN r ELSE
        Ok(smart_space0(r.rest).rest, r.val)])

\* opt(p): a recoverable error becomes an absent value
opt(r, in) ==
    IF r.tag = "Ok" THEN Ok(r.rest, Some(r.val))
    ELSE IF r.tag = "Error" THEN Ok(in, None)
    ELSE r

tag(t, in) == IF starts_with(in, t) THEN Ok(Drop(in, Len(t)), t) ELSE Error(in, "Tag")
\* take_split(count): str::split_at at the byte offset count, which aborts
\* when the offset lies inside a character
take_split(in, count) ==
    Val([ks \in {{k \in 0..count : k <= Len(in) /\ str_len(Take(in, k)) = count}} |->
        IF ks = {} THEN Panic(in, "not a char boundary")
        ELSE Ok(Drop(in, Min(ks)), Take(in, Min(ks)))])

\* tag_no_case(t): when the comparison succeeds the input is split at the
\* length of the tag in bytes
tag_no_case(t, in) ==
    IF compare_no_case(in, t) = "Ok" THEN take_split(in, str_len(t))
    ELSE Error(in, "Tag")
char(c, in) == IF Len(in) > 0 /\ in[1] = c THEN Ok(Drop(in, 1), c) ELSE Error(in, "Char")

(***************************************************************************)
(* Tokens                                                                  *)
(***************************************************************************)
\* recognize(pair(alt((alpha1, tag("_"))), many0(alt((alphanumeric1, tag("_"), tag(".")))))):
\* the length recognized, 0 when the first alternative fails
identifier_len(in) ==
    Val([a \in {SpanLen(in, Alpha)} |->
    Val([first \in {IF a > 0 THEN a ELSE IF starts_with(in, <<"_">>) THEN 1 ELSE 0} |->
        IF first = 0 THEN 0
        ELSE first + SpanLen(Drop(in, first), Alnum \cup {"_", "."})])])

identifier(in) ==
    Val([n \in {identifier_len(in)} |->
        wrap_parser(IF n = 0 THEN Error(in, "Alt") ELSE Ok(Drop(in, n), Take(in, n)),
                    in, "identifier")])

node(in) ==
    Val([n \in {SpanLen(in, Alnum \cup {"_", "."})} |->
        wrap_parser(IF n = 0 THEN Error(in, "Many1") ELSE Ok(Drop(in, n), Take(in, n)),
                    in, "node")])

RECURSIVE DigitsToNat(_)
DigitsToNat(ds) ==
    IF ds = <<>> THEN 0
    ELSE 10 * DigitsToNat(Take(ds, Len(ds) - 1)) + (IndexIn(DigitSeq, ds[Len(ds)]) - 1)

\* u32::MAX as text, compared in two halves (each fits a machine integer)
U32MaxText == <<"4","2","9","4","9","6","7","2","9","5">>

\* u32::from_str on a run of digits
HighHalf(x) == DigitsToNat(Take(x, 5))
LowHalf(x) == DigitsToNat(Drop(x, 5))
u32_from_str(ds) ==
    Val([sig \in {Drop(ds, SpanLen(ds, {"0"}))} |->
        IF Len(sig) > 10 THEN None
        ELSE IF Len(sig) = 10
                /\ (HighHalf(sig) > HighHalf(U32MaxText)
                    \/ (HighHalf(sig) = HighHalf(U32MaxText)
                        /\ LowHalf(sig) > LowHalf(U32MaxText)))
             THEN None
        ELSE Some(DigitsToNat(sig))])

unsigned_int(in) ==
    Val([n \in {SpanLen(in, Digit)} |->
    Val([v \in {u32_from_str(Take(in, n))} |->
        wrap_parser(IF n = 0 THEN Error(in, "Digit")
                    ELSE IF ~v.some THEN Error(in, "MapRes")
                    ELSE Ok(Drop(in, n), v.v),
                    in, "unsigned_int")])])

\* decimal: a digit, then digits and underscores (each digit may be followed
\* by underscores); the length recognized, 0 when the first character is no digit
decimal_len(in) ==
    IF Len(in) > 0 /\ in[1] \in Digit THEN SpanLen(in, Digit \cup {"_"}) ELSE 0

\* f64::from_str on text of the shape [-]digits[.[digits]]; underscores are
\* rejected.  The value is the exact decimal m / 10^e with the trailing
\* zeros of the fraction removed (equal decimals give equal f64 values).
f64_from_str(txt) ==
    IF \E i \in 1..Len(txt) : txt[i] = "_" THEN None
    ELSE
    Val([neg \in {Len(txt) > 0 /\ txt[1] = "-"} |->
    Val([body \in {IF neg THEN Drop(txt, 1) ELSE txt} |->
    Val([ip \in {Take(body, SpanLen(body, Digit))} |->
    Val([afterInt \in {Drop(body, Len(ip))} |->
    Val([fp0 \in {IF afterInt # <<>> /\ afterInt[1] = "." THEN Drop(afterInt, 1) ELSE <<>>} |->
    Val([fp \in {Take(fp0, Len(fp0) - SpanLenEnd(fp0, {"0"}))} |->
    Val([m \in {DigitsToNat(ip \o fp)} |->
        Some([m |-> IF neg THEN 0 - m ELSE m, e |-> IF m = 0 THEN 0 ELSE Len(fp)])])])])])])])])

\* recognize(alt(...)) of float: the length recognized, 0 when no case matches
float_len(in) ==
    Val([sign \in {IF Len(in) > 0 /\ in[1] = "-" THEN 1 ELSE 0} |->
    Val([d1 \in {decimal_len(Drop(in, sign))} |->
    Val([afterInt \in {Drop(in, sign + d1)} |->
        IF d1 = 0 THEN 0
        \* case one: 42. and 42.42
        ELSE IF Len(afterInt) > 0 /\ afterInt[1] = "."
             THEN sign + d1 + 1 + decimal_len(Drop(afterInt, 1))
        \* case two: integer as float number
        ELSE sign + d1])])])

float(in) ==
    Val([n \in {float_len(in)} |->
    Val([v \in {f64_from_str(Take(in, n))} |->
        wrap_parser(IF n = 0 THEN Error(in, "Alt")
                    ELSE IF ~v.some THEN Error(in, "MapRes")
                    ELSE Ok(Drop(in, n), v.v),
                    in, "float")])])

(***************************************************************************)
(* Numbers with scale suffixes.  A table lists (tag, scale) in the order   *)
(* the alternatives are written; the first tag that matches, letter case   *)
(* ignored, decides.                                                       *)
(***************************************************************************)
ScaleRows == << <<<<"g">>, "Mega">>, <<<<"m","e","g">>, "Mega">>, <<<<"k">>, "Kilo">>, <<<<"m">>, "Milli">>,
                <<<<"u">>, "Micro">>, <<<<"n">>, "Nano">>, <<<<"p">>, "Pico">> >>
WithUnit(u) == [i \in 1..Len(ScaleRows) |-> <<ScaleRows[i][1] \o u, ScaleRows[i][2]>>]

number_suffixes == ScaleRows
time_suffixes == WithUnit(<<"s">>) \o ScaleRows \o << <<<<"s">>, "None">> >>
voltage_suffixes == WithUnit(<<"v">>) \o ScaleRows \o << <<<<"v">>, "None">> >>
current_suffixes == WithUnit(<<"A">>) \o ScaleRows \o << <<<<"A">>, "None">> >>
resistance_suffixes == WithUnit(<<"OHM">>) \o ScaleRows \o << <<<<"OHM">>, "None">> >>
capacitance_suffixes == WithUnit(<<"F">>) \o ScaleRows \o << <<<<"F">>, "None">> >>
inductance_suffixes == WithUnit(<<"H">>) \o ScaleRows \o << <<<<"H">>, "Pico">> >>

\* the Number of the magnitude and the scale of the tag that matched: r is
\* what the tag_no_case of that tag returned
with_suffix(r, value, suffix) ==
    IF r.tag # "Ok" THEN r ELSE Ok(r.rest, [value |-> value, suffix |-> suffix])

\* a suffixed_number that prefers, among the tags that match, the shortest
suffixed_number_shortest(table, in, ctx) ==
    wrap_parser(
        Val([f \in {float(in)} |-> IF f.tag # "Ok" THEN f ELSE
        Val([hits \in {{i \in 1..Len(table) : compare_no_case(f.rest, table[i][1]) = "Ok"}} |->
            IF hits = {} THEN Ok(f.rest, [value |-> f.val, suffix |-> "None"])
            ELSE Val([h \in {CHOOSE i \in hits : \A j \in hits :
                                Len(table[i][1]) < Len(table[j][1])
                                \/ (Len(table[i][1]) = Len(table[j][1]) /\ i <= j)} |->
                 with_suffix(tag_no_case(table[h][1], f.rest), f.val, table[h][2])])])]),
        in, ctx)

\* float, then opt(alt(...)) over the table; wrapped under the label ctx
suffixed_number(table, in, ctx) ==
    wrap_parser(
        Val([f \in {float(in)} |-> IF f.tag # "Ok" THEN f ELSE
        Val([hits \in {{i \in 1..Len(table) : compare_no_case(f.rest, table[i][1]) = "Ok"}} |->
            IF hits = {} THEN Ok(f.rest, [value |-> f.val, suffix |-> "None"])
            ELSE with_suffix(tag_no_case(table[Min(hits)][1], f.rest), f.val,
                             table[Min(hits)][2])])]),
        in, ctx)

number(in) == suffixed_number(number_suffixes, in, "expect number")
time_number(in) == suffixed_number(time_suffixes, in, "expect time number")
voltage_number(in) == suffixed_number(voltage_suffixes, in, "expect voltage number")
current_number(in) == suffixed_number(current_suffixes, in, "expect current number")
resistance_number(in) == suffixed_number(resistance_suffixes, in, "expect resistance number")
capacitance_number(in) == suffixed_number(capacitance_suffixes, in, "expect capacitance number")
inductance_number(in) == suffixed_number(inductance_suffixes, in, "expect inductance number")
frequency_number(in) == number(in)
angle_number(in) == number(in)

\* not_line_ending: everything up to "\n" or "\r\n"; a "\r" that is not
\* followed by "\n" is an error
not_line_ending(in) ==
    Val([n \in {SpanUntil(in, {"\r", "\n"})} |->
        IF n < Len(in) /\ in[n + 1] = "\r" /\ ~starts_with(Drop(in, n), <<"\r","\n">>)
        THEN Error(in, "Tag")
        ELSE Ok(Drop(in, n), Take(in, n))])

\* alt((tag("\n"), tag("\r\n"), eof))
line_end(in) ==
    IF starts_with(in, <<"\n">>) THEN Ok(Drop(in, 1), <<>>)
    ELSE IF starts_with(in, <<"\r","\n">>) THEN Ok(Drop(in, 2), <<>>)
    ELSE IF in = <<>> THEN Ok(in, <<>>)
    ELSE Error(in, "Alt")

comment(in) ==
    wrap_parser(
        Val([star \in {IF starts_with(in, <<"*">>) \/ starts_with(in, <<";">>) THEN Ok(Drop(in, 1), <<>>)
                 ELSE Error(in, "Alt")} |-> IF star.tag # "Ok" THEN star ELSE
        Val([body \in {not_line_ending(Drop(star.rest, SpanLen(star.rest, {" ", "\t"})))} |-> IF body.tag # "Ok" THEN body ELSE
        Val([e \in {line_end(body.rest)} |-> IF e.tag # "Ok" THEN e ELSE
            Ok(e.rest, trim_end(body.val))])])]),
        in, "comment")

(***************************************************************************)
(* Components (parse/components.rs)                                        *)
(***************************************************************************)
\* an element parser that takes a name whatever its first letter
begins_with_any(name, upper, lower) == TRUE

\* the name of an element must start with the letter, in either case
begins_with(name, upper, lower) ==
    starts_with(name, <<upper>>) \/ starts_with(name, <<lower>>)

resistor(in) ==
    Val([n \in {hws(identifier, in)} |-> IF n.tag # "Ok" THEN n ELSE
        IF ~begins_with(n.val, "R", "r") THEN Error(n.rest, "should begin with R")
        ELSE
        Val([a \in {to_failure(hws(node, n.rest))} |-> IF a.tag # "Ok" THEN a ELSE
        Val([b \in {to_failure(hws(node, a.rest))} |-> IF b.tag # "Ok" THEN b ELSE
        Val([v \in {to_failure(hws(resistance_number, b.rest))} |-> IF v.tag # "Ok" THEN v ELSE
            Ok(v.rest, [name |-> Drop(n.val, 1), node_pos |-> a.val,
                        node_neg |-> b.val, resistance |-> v.val])])])])])

capacitor(in) ==
    Val([n \in {hws(identifier, in)} |-> IF n.tag # "Ok" THEN n ELSE
        IF ~begins_with(n.val, "C", "c") THEN Error(n.rest, "should begin with C")
        ELSE
        Val([a \in {to_failure(hws(node, n.rest))} |-> IF a.tag # "Ok" THEN a ELSE
        Val([b \in {to_failure(hws(node, a.rest))} |-> IF b.tag # "Ok" THEN b ELSE
        Val([v \in {to_failure(hws(capacitance_number, b.rest))} |-> IF v.tag # "Ok" THEN v ELSE
            Ok(v.rest, [name |-> Drop(n.val, 1), node_pos |-> a.val,
                        node_neg |-> b.val, capacitance |-> v.val])])])])])

inductor(in) ==
    Val([n \in {hws(identifier, in)} |-> IF n.tag # "Ok" THEN n ELSE
        IF ~begins_with(n.val, "L", "l") THEN Error(n.rest, "should begin with L")
        ELSE
        Val([a \in {to_failure(hws(node, n.rest))} |-> IF a.tag # "Ok" THEN a ELSE
        Val([b \in {to_failure(hws(node, a.rest))} |-> IF b.tag # "Ok" THEN b ELSE
        Val([v \in {to_failure(hws(inductance_number, b.rest))} |-> IF v.tag # "Ok" THEN v ELSE
            Ok(v.rest, [name |-> Drop(n.val, 1), node_pos |-> a.val,
                        node_neg |-> b.val, inductance |-> v.val])])])])])

diode(in) ==
    Val([n \in {hws(identifier, in)} |-> IF n.tag # "Ok" THEN n ELSE
        IF ~begins_with(n.val, "D", "d") THEN Error(n.rest, "should begin with D")
        ELSE
        Val([a \in {to_failure(hws(node, n.rest))} |-> IF a.tag # "Ok" THEN a ELSE
        Val([b \in {to_failure(hws(node, a.rest))} |-> IF b.tag # "Ok" THEN b ELSE
        Val([m \in {to_failure(hws(identifier, b.rest))} |-> IF m.tag # "Ok" THEN m ELSE
            Ok(m.rest, [name |-> Drop(n.val, 1), node_pos |-> a.val,
                        node_neg |-> b.val, model_name |-> m.val])])])])])

bjt(in) ==
    Val([n \in {hws(identifier, in)} |-> IF n.tag # "Ok" THEN n ELSE
        IF ~begins_with(n.val, "Q", "q") THEN Error(n.rest, "should begin with Q")
        ELSE
        Val([c \in {to_failure(hws(node, n.rest))} |-> IF c.tag # "Ok" THEN c ELSE
        Val([b \in {to_failure(hws(node, c.rest))} |-> IF b.tag # "Ok" THEN b ELSE
        Val([e \in {to_failure(hws(node, b.rest))} |-> IF e.tag # "Ok" THEN e ELSE
        Val([m \in {to_failure(hws(identifier, e.rest))} |-> IF m.tag # "Ok" THEN m ELSE
            Ok(m.rest, [name |-> Drop(n.val, 1), collector |-> c.val, base |-> b.val,
                        emitter |-> e.val, model_name |-> m.val])])])])])])

\* key=value, the key an identifier and the value a Number
parameter_pair(in) ==
    Val([k \in {hws(identifier, in)} |-> IF k.tag # "Ok" THEN k ELSE
    Val([q \in {hws(LAMBDA i : char("=", i), k.rest)} |-> IF q.tag # "Ok" THEN q ELSE
    Val([v \in {hws(number, q.rest)} |-> IF v.tag # "Ok" THEN v ELSE
        Ok(v.rest, <<k.val, v.val>>)])])])

hws_parameter_pair(in) == hws(parameter_pair, in)

RECURSIVE many0(_, _)
\* many0(p): p is applied until it gives a recoverable Error; a Failure (and
\* an abort) is passed on, and a success that consumed nothing is an Error
many0(p(_), in) ==
    Val([r \in {p(in)} |->
        IF r.tag = "Error" THEN Ok(in, <<>>)
        ELSE IF r.tag \in {"Failure", "Panic"} THEN r
        ELSE IF Len(r.rest) = Len(in) THEN Error(in, "Many0")
        ELSE Val([more \in {many0(p, r.rest)} |-> IF more.tag # "Ok" THEN more ELSE
                 Ok(more.rest, <<r.val>> \o more.val)])])

\* a HashMap built by inserting the pairs in order: the last value of a key stays
HashMapOf(pairs) ==
    [k \in {pairs[i][1] : i \in 1..Len(pairs)} |->
        pairs[Max({i \in 1..Len(pairs) : pairs[i][1] = k})][2]]

\* the indices of the pairs whose key is k as written
KeyIsExact(pairs, k) == {i \in 1..Len(pairs) : pairs[i][1] = k}

\* the indices of the pairs whose key is k, letter case ignored
KeyIs(pairs, k) == {i \in 1..Len(pairs) : str_to_ascii_lowercase(pairs[i][1]) = k}

\* the for loop over raw_params and builder.build() of mos_fet
mos_fet_build(rest, name, d, g, s, b, m, raw) ==
    \* builder.build() fails when length or width was never set
    IF KeyIs(raw, <<"l">>) = {} \/ KeyIs(raw, <<"w">>) = {} THEN Failure(rest, "no w/l given")
    ELSE Ok(rest, [name |-> name, drain |-> d, gate |-> g, source |-> s, bulk |-> b,
                   model_name |-> m,
                   length |-> raw[Max(KeyIs(raw, <<"l">>))][2],
                   width |-> raw[Max(KeyIs(raw, <<"w">>))][2],
                   parameters |-> HashMapOf(SelectSeq(raw, LAMBDA kv :
                       str_to_ascii_lowercase(kv[1]) \notin {<<"l">>, <<"w">>}))])

mos_fet(in) ==
    Val([n \in {hws(identifier, in)} |-> IF n.tag # "Ok" THEN n ELSE
        IF ~begins_with(n.val, "M", "m") THEN Error(n.rest, "should begin with M")
        ELSE
        Val([d \in {to_failure(hws(node, n.rest))} |-> IF d.tag # "Ok" THEN d ELSE
        Val([g \in {to_failure(hws(node, d.rest))} |-> IF g.tag # "Ok" THEN g ELSE
        Val([s \in {to_failure(hws(node, g.rest))} |-> IF s.tag # "Ok" THEN s ELSE
        Val([b \in {to_failure(hws(node, s.rest))} |-> IF b.tag # "Ok" THEN b ELSE
        Val([m \in {to_failure(hws(identifier, b.rest))} |-> IF m.tag # "Ok" THEN m ELSE
        Val([raw \in {many0(hws_parameter_pair, m.rest)} |-> IF raw.tag # "Ok" THEN raw ELSE
            mos_fet_build(raw.rest, Drop(n.val, 1), d.val, g.val, s.val, b.val,
                          m.val, raw.val)])])])])])])])

\* alt over the six element parsers, in the order written: the first result
\* that is not a recoverable Error is returned
ComponentAlts == <<"R", "C", "L", "D", "Q", "M">>
component_alt(k, in) ==
    CASE k = 1 -> resistor(in)
      [] k = 2 -> capacitor(in)
      [] k = 3 -> inductor(in)
      [] k = 4 -> diode(in)
      [] k = 5 -> bjt(in)
      [] k = 6 -> mos_fet(in)

RECURSIVE component_from(_, _)
component_from(k, in) ==
    Val([r \in {component_alt(k, in)} |->
        IF r.tag = "Ok" THEN Ok(r.rest, [kind |-> ComponentAlts[k], c |-> r.val])
        ELSE IF r.tag \in {"Failure", "Panic"} THEN r
        ELSE IF k < Len(ComponentAlts) THEN component_from(k + 1, in)
        ELSE r])

component(in) == component_from(1, in)

RECURSIVE component_in_order(_, _, _)
\* alt over the six element parsers tried in the order given, from the j-th
\* place on
component_in_order(order, j, in) ==
    Val([r \in {component_alt(order[j], in)} |->
        IF r.tag = "Ok" THEN Ok(r.rest, [kind |-> ComponentAlts[order[j]], c |-> r.val])
        ELSE IF r.tag \in {"Failure", "Panic"} THEN r
        ELSE IF j < Len(order) THEN component_in_order(order, j + 1, in)
        ELSE r])

RECURSIVE first_tag_no_case(_, _, _)
\* alt((tag_no_case(words[k]), tag_no_case(words[k+1]), ...))
first_tag_no_case(words, k, in) ==
    Val([r \in {tag_no_case(words[k], in)} |->
        IF r.tag # "Error" \/ k = Len(words) THEN r
        ELSE first_tag_no_case(words, k + 1, in)])

ModelKindWords == <<<<"N","P","N">>, <<"D">>, <<"N","M","O","S">>, <<"P","M","O","S">>>>
model_kind_alt(in) == first_tag_no_case(ModelKindWords, 1, in)

model_kind(in) ==
    Val([r \in {hws(model_kind_alt, in)} |-> IF r.tag # "Ok" THEN r ELSE
    Val([up \in {str_to_ascii_uppercase(r.val)} |->
        Ok(r.rest, CASE up = <<"N","P","N">> -> "NPN" [] up = <<"D">> -> "Diode"
                     [] up = <<"N","M","O","S">> -> "NMos" [] up = <<"P","M","O","S">> -> "PMos")])])

model(in) ==
    Val([kw \in {hws(LAMBDA i : tag_no_case(<<".","m","o","d","e","l">>, i), in)} |-> IF kw.tag # "Ok" THEN kw ELSE
    Val([n \in {to_failure(hws(identifier, kw.rest))} |-> IF n.tag # "Ok" THEN n ELSE
    Val([k \in {to_failure(hws(model_kind, n.rest))} |-> IF k.tag # "Ok" THEN k ELSE
    Val([lp \in {to_failure(hws(LAMBDA i : tag_no_case(<<"(">>, i), k.rest))} |-> IF lp.tag # "Ok" THEN lp ELSE
    Val([ps \in {to_failure(many0(parameter_pair, lp.rest))} |-> IF ps.tag # "Ok" THEN ps ELSE
    Val([rp \in {to_failure(hws(LAMBDA i : tag_no_case(<<")">>, i), ps.rest))} |-> IF rp.tag # "Ok" THEN rp ELSE
        Ok(rp.rest, [name |-> n.val, kind |-> k.val, parameters |-> HashMapOf(ps.val)])])])])])])])

(***************************************************************************)
(* Sources (parse/source.rs)                                               *)
(***************************************************************************)
\* opt(alt((hws(tag_no_case(kw ++ "=")), hws(tag_no_case(kw))))): the input
\* left after the optional keyword, and whether it was there
opt_keyword(kw, in) ==
    Val([a \in {hws(LAMBDA i : tag_no_case(kw \o <<"=">>, i), in)} |->
        IF a.tag = "Ok" THEN Ok(a.rest, TRUE)
        ELSE Val([b \in {hws(LAMBDA i : tag_no_case(kw, i), in)} |->
                 IF b.tag = "Ok" THEN Ok(b.rest, TRUE) ELSE Ok(in, FALSE)])])

\* a field after an optional keyword: fatal only when the keyword was there
after_keyword(kw, r) == IF kw.val THEN to_failure(r) ELSE r

dc_voltage(in) ==
    Val([kw \in {opt_keyword(<<"D","C">>, in)} |->
        after_keyword(kw, hws(voltage_number, kw.rest))])

dc_current(in) ==
    Val([kw \in {opt_keyword(<<"D","C">>, in)} |->
        after_keyword(kw, hws(current_number, kw.rest))])

ac_voltage(in) ==
    Val([kw \in {opt_keyword(<<"A","C">>, in)} |->
    Val([m \in {after_keyword(kw, hws(voltage_number, kw.rest))} |-> IF m.tag # "Ok" THEN m ELSE
    Val([ph \in {after_keyword(kw, hws(angle_number, m.rest))} |-> IF ph.tag # "Ok" THEN ph ELSE
        Ok(ph.rest, [magnitude |-> m.val, phase_deg |-> ph.val])])])])

ac_current(in) ==
    Val([kw \in {opt_keyword(<<"A","C">>, in)} |->
    Val([m \in {after_keyword(kw, hws(current_number, kw.rest))} |-> IF m.tag # "Ok" THEN m ELSE
    Val([ph \in {after_keyword(kw, hws(angle_number, m.rest))} |-> IF ph.tag # "Ok" THEN ph ELSE
        Ok(ph.rest, [magnitude |-> m.val, phase_deg |-> ph.val])])])])

ZeroNumber == [value |-> [m |-> 0, e |-> 0], suffix |-> "None"]
unwrap_or(o, d) == IF o.some THEN o.v ELSE d

sine_voltage(in) ==
    Val([kw \in {hws(LAMBDA i : tag_no_case(<<"S","I","N">>, i), in)} |-> IF kw.tag # "Ok" THEN kw ELSE
    Val([lp \in {to_failure(hws(LAMBDA i : char("(", i), kw.rest))} |-> IF lp.tag # "Ok" THEN lp ELSE
    Val([vo \in {to_failure(hws(voltage_number, lp.rest))} |-> IF vo.tag # "Ok" THEN vo ELSE
    Val([va \in {to_failure(hws(voltage_number, vo.rest))} |-> IF va.tag # "Ok" THEN va ELSE
    Val([fr \in {to_failure(hws(frequency_number, va.rest))} |-> IF fr.tag # "Ok" THEN fr ELSE
    Val([td \in {to_failure(opt(hws(time_number, fr.rest), fr.rest))} |-> IF td.tag # "Ok" THEN td ELSE
    Val([da \in {to_failure(opt(hws(frequency_number, td.rest), td.rest))} |-> IF da.tag # "Ok" THEN da ELSE
    Val([ph \in {to_failure(opt(hws(number, da.rest), da.rest))} |-> IF ph.tag # "Ok" THEN ph ELSE
    Val([rp \in {to_failure(hws(LAMBDA i : char(")", i), ph.rest))} |-> IF rp.tag # "Ok" THEN rp ELSE
        Ok(rp.rest, [vo |-> vo.val, va |-> va.val, freq_hz |-> fr.val,
                     delay |-> unwrap_or(td.val, ZeroNumber),
                     damping |-> unwrap_or(da.val, ZeroNumber),
                     phase_deg |-> unwrap_or(ph.val, ZeroNumber)])])])])])])])])])])

RECURSIVE pwl_points_reversed(_)
\* a loop that puts each later pair in front of the earlier ones
pwl_points_reversed(in) ==
    Val([tm \in {to_failure(hws(time_number, in))} |-> IF tm.tag # "Ok" THEN tm ELSE
    Val([v \in {to_failure(hws(voltage_number, tm.rest))} |-> IF v.tag # "Ok" THEN v ELSE
    Val([end \in {to_failure(opt(hws(LAMBDA i : char(")", i), v.rest), v.rest))} |-> IF end.tag # "Ok" THEN end ELSE
        IF end.val.some THEN Ok(end.rest, << <<tm.val, v.val>> >>)
        ELSE Val([more \in {pwl_points_reversed(v.rest)} |-> IF more.tag # "Ok" THEN more ELSE
                 Ok(more.rest, more.val \o << <<tm.val, v.val>> >>)])])])])

RECURSIVE pwl_points(_)
\* the loop of pwl_voltage: one (time, value) pair, then an optional ")"
pwl_points(in) ==
    Val([tm \in {to_failure(hws(time_number, in))} |-> IF tm.tag # "Ok" THEN tm ELSE
    Val([v \in {to_failure(hws(voltage_number, tm.rest))} |-> IF v.tag # "Ok" THEN v ELSE
    Val([end \in {to_failure(opt(hws(LAMBDA i : char(")", i), v.rest), v.rest))} |-> IF end.tag # "Ok" THEN end ELSE
        IF end.val.some THEN Ok(end.rest, << <<tm.val, v.val>> >>)
        ELSE Val([more \in {pwl_points(v.rest)} |-> IF more.tag # "Ok" THEN more ELSE
                 Ok(more.rest, << <<tm.val, v.val>> >> \o more.val)])])])])

\* one iteration of the loop of pwl_voltage; acc holds the points so far
pwl_iteration(in, acc) ==
    Val([tm \in {to_failure(hws(time_number, in))} |-> IF tm.tag # "Ok" THEN Break(tm) ELSE
    Val([v \in {to_failure(hws(voltage_number, tm.rest))} |-> IF v.tag # "Ok" THEN Break(v) ELSE
    Val([end \in {to_failure(opt(hws(LAMBDA i : char(")", i), v.rest), v.rest))} |-> IF end.tag # "Ok" THEN Break(end) ELSE
        IF end.val.some THEN Break(Ok(end.rest, Append(acc, <<tm.val, v.val>>)))
        ELSE Continue(v.rest, Append(acc, <<tm.val, v.val>>))])])])

pwl_voltage(in) ==
    Val([kw \in {hws(LAMBDA i : tag_no_case(<<"P","W","L">>, i), in)} |-> IF kw.tag # "Ok" THEN kw ELSE
    Val([lp \in {to_failure(hws(LAMBDA i : char("(", i), kw.rest))} |-> IF lp.tag # "Ok" THEN lp ELSE
    Val([pts \in {pwl_points(lp.rest)} |-> IF pts.tag # "Ok" THEN pts ELSE
        Ok(pts.rest, [points |-> pts.val])])])])

pulse_voltage(in) ==
    Val([kw \in {hws(LAMBDA i : tag_no_case(<<"P","U","L","S","E">>, i), in)} |-> IF kw.tag # "Ok" THEN kw ELSE
    Val([lp \in {to_failure(hws(LAMBDA i : char("(", i), kw.rest))} |-> IF lp.tag # "Ok" THEN lp ELSE
    Val([v0 \in {to_failure(hws(voltage_number, lp.rest))} |-> IF v0.tag # "Ok" THEN v0 ELSE
    Val([v1 \in {to_failure(hws(voltage_number, v0.rest))} |-> IF v1.tag # "Ok" THEN v1 ELSE
    Val([td \in {to_failure(hws(time_number, v1.rest))} |-> IF td.tag # "Ok" THEN td ELSE
    Val([tr \in {to_failure(hws(time_number, td.rest))} |-> IF tr.tag # "Ok" THEN tr ELSE
    Val([tf \in {to_failure(hws(time_number, tr.rest))} |-> IF tf.tag # "Ok" THEN tf ELSE
    Val([tw \in {to_failure(hws(time_number, tf.rest))} |-> IF tw.tag # "Ok" THEN tw ELSE
    Val([per \in {to_failure(hws(time_number, tw.rest))} |-> IF per.tag # "Ok" THEN per ELSE
    Val([rp \in {to_failure(hws(LAMBDA i : char(")", i), per.rest))} |-> IF rp.tag # "Ok" THEN rp ELSE
        Ok(rp.rest, [v0 |-> v0.val, v1 |-> v1.val, delay |-> td.val, rise |-> tr.val,
                     fall |-> tf.val, width |-> tw.val, period |-> per.val])])])])])])])])])])])

SourceValueAlts(kind) ==
    IF kind = "Voltage" THEN <<"DcVoltage", "AcVoltage", "Sin", "Pwl", "Pulse">>
    ELSE <<"DcCurrent", "AcCurrent", "Sin", "Pwl", "Pulse">>

source_value_alt(name, in) ==
    CASE name = "DcVoltage" -> dc_voltage(in)
      [] name = "DcCurrent" -> dc_current(in)
      [] name = "AcVoltage" -> ac_voltage(in)
      [] name = "AcCurrent" -> ac_current(in)
      [] name = "Sin" -> sine_voltage(in)
      [] name = "Pwl" -> pwl_voltage(in)
      [] name = "Pulse" -> pulse_voltage(in)

RECURSIVE source_value_from(_, _, _)
source_value_from(k, in, kind) ==
    Val([r \in {source_value_alt(SourceValueAlts(kind)[k], in)} |->
        IF r.tag = "Ok" THEN Ok(r.rest, [kind |-> SourceValueAlts(kind)[k], v |-> r.val])
        ELSE IF r.tag \in {"Failure", "Panic"} THEN r
        ELSE IF k < Len(SourceValueAlts(kind)) THEN source_value_from(k + 1, in, kind)
        ELSE r])

source_value(in, kind) == source_value_from(1, in, kind)

source(in) ==
    Val([n \in {hws(identifier, in)} |-> IF n.tag # "Ok" THEN n ELSE
    Val([first_char \in {to_ascii_uppercase(n.val[1])} |->
        IF first_char \notin {"V", "I"} THEN Error(n.rest, "Source must begin with V or I")
        ELSE
        Val([src_kind \in {IF first_char = "V" THEN "Voltage" ELSE "Current"} |->
        Val([a \in {to_failure(hws(node, n.rest))} |-> IF a.tag # "Ok" THEN a ELSE
        Val([b \in {to_failure(hws(node, a.rest))} |-> IF b.tag # "Ok" THEN b ELSE
        Val([v \in {to_failure(hws(LAMBDA i : source_value(i, src_kind), b.rest))} |-> IF v.tag # "Ok" THEN v ELSE
            Ok(v.rest, [name |-> Drop(n.val, 1), node_pos |-> a.val,
                        node_neg |-> b.val, value |-> v.val])])])])])])])

(***************************************************************************)
(* Simulation commands (parse/simulate.rs)                                 *)
(***************************************************************************)
dc_command(in) ==
    Val([kw \in {hws(LAMBDA i : tag_no_case(<<".","D","C">>, i), in)} |-> IF kw.tag # "Ok" THEN kw ELSE
    Val([s \in {to_failure(hws(identifier, kw.rest))} |-> IF s.tag # "Ok" THEN s ELSE
    Val([a \in {to_failure(hws(voltage_number, s.rest))} |-> IF a.tag # "Ok" THEN a ELSE
    Val([b \in {to_failure(hws(voltage_number, a.rest))} |-> IF b.tag # "Ok" THEN b ELSE
    Val([c \in {to_failure(hws(voltage_number, b.rest))} |-> IF c.tag # "Ok" THEN c ELSE
        Ok(c.rest, [src_name |-> s.val, start |-> a.val, stop |-> b.val, step |-> c.val])])])])])])

SweepWords == <<<<"L","I","N">>, <<"D","E","C">>, <<"O","C","T">>>>
sweep_alt(in) == first_tag_no_case(SweepWords, 1, in)

ac_command(in) ==
    Val([kw \in {hws(LAMBDA i : tag_no_case(<<".","A","C">>, i), in)} |-> IF kw.tag # "Ok" THEN kw ELSE
    Val([sw \in {to_failure(hws(sweep_alt, kw.rest))} |-> IF sw.tag # "Ok" THEN sw ELSE
    Val([up \in {str_to_ascii_uppercase(sw.val)} |->
    Val([n \in {to_failure(hws(unsigned_int, sw.rest))} |-> IF n.tag # "Ok" THEN n ELSE
    Val([f1 \in {to_failure(hws(frequency_number, n.rest))} |-> IF f1.tag # "Ok" THEN f1 ELSE
    Val([f2 \in {to_failure(hws(frequency_number, f1.rest))} |-> IF f2.tag # "Ok" THEN f2 ELSE
        Ok(f2.rest, [sweep_type |-> CASE up = <<"L","I","N">> -> "Lin" [] up = <<"D","E","C">> -> "Dec"
                                      [] up = <<"O","C","T">> -> "Oct",
                     points |-> n.val, f_start |-> f1.val, f_stop |-> f2.val])])])])])])])

tran_command(in) ==
    Val([kw \in {hws(LAMBDA i : tag_no_case(<<".","T","R","A","N">>, i), in)} |-> IF kw.tag # "Ok" THEN kw ELSE
    Val([t1 \in {to_failure(hws(time_number, kw.rest))} |-> IF t1.tag # "Ok" THEN t1 ELSE
    Val([t2 \in {to_failure(hws(time_number, t1.rest))} |-> IF t2.tag # "Ok" THEN t2 ELSE
    Val([t3 \in {to_failure(opt(hws(time_number, t2.rest), t2.rest))} |-> IF t3.tag # "Ok" THEN t3 ELSE
    Val([t4 \in {to_failure(opt(hws(time_number, t3.rest), t3.rest))} |-> IF t4.tag # "Ok" THEN t4 ELSE
    Val([uic \in {to_failure(opt(hws(identifier, t4.rest), t4.rest))} |-> IF uic.tag # "Ok" THEN uic ELSE
        IF uic.val.some /\ ~eq_ignore_ascii_case(uic.val.v, <<"U","I","C">>)
        THEN Failure(uic.rest, "expected UIC or end of line")
        ELSE Ok(uic.rest, [t_step |-> t1.val, t_stop |-> t2.val, t_start |-> t3.val,
                           t_max |-> t4.val, uic |-> uic.val.some])])])])])])])

SimAlts == <<"Dc", "Ac", "Tran">>
sim_command_alt(k, in) ==
    CASE k = 1 -> dc_command(in)
      [] k = 2 -> ac_command(in)
      [] k = 3 -> tran_command(in)

RECURSIVE sim_command_from(_, _)
sim_command_from(k, in) ==
    Val([r \in {sim_command_alt(k, in)} |->
        IF r.tag = "Ok" THEN Ok(r.rest, [kind |-> SimAlts[k], c |-> r.val])
        ELSE IF r.tag \in {"Failure", "Panic"} THEN r
        ELSE IF k < Len(SimAlts) THEN sim_command_from(k + 1, in)
        ELSE r])

sim_command(in) == sim_command_from(1, in)

(***************************************************************************)
(* Measurements (parse/measures.rs)                                        *)
(***************************************************************************)
\* map(hws(alt(...)), to_ascii_uppercase) over keywords, letter case ignored:
\* the value is the matched text in upper case
keyword_of(words, in) ==
    Val([r \in {hws(LAMBDA i : first_tag_no_case(words, 1, i), in)} |-> IF r.tag # "Ok" THEN r ELSE
        Ok(r.rest, str_to_ascii_uppercase(r.val))])

AnalysisWords == <<<<"T","R","A","N">>, <<"A","C">>, <<"D","C">>>>
analysis_type(in) ==
    Val([r \in {keyword_of(AnalysisWords, in)} |-> IF r.tag # "Ok" THEN r ELSE
        Ok(r.rest, CASE r.val = <<"T","R","A","N">> -> "Tran" [] r.val = <<"A","C">> -> "Ac"
                     [] r.val = <<"D","C">> -> "Dc")])

FunctionWords == <<<<"A","V","G">>, <<"R","M","S">>, <<"M","I","N">>, <<"M","A","X">>, <<"P","P">>, <<"D","E","R","I","V">>, <<"I","N","T","E","G","R","A","T","E">>>>
measure_function(in) ==
    Val([r \in {keyword_of(FunctionWords, in)} |-> IF r.tag # "Ok" THEN r ELSE
        Ok(r.rest, CASE r.val = <<"A","V","G">> -> "Avg" [] r.val = <<"R","M","S">> -> "Rms"
                     [] r.val = <<"M","I","N">> -> "Min" [] r.val = <<"M","A","X">> -> "Max"
                     [] r.val = <<"P","P">> -> "Pp" [] r.val = <<"D","E","R","I","V">> -> "Deriv"
                     [] r.val = <<"I","N","T","E","G","R","A","T","E">> -> "Integrate")])

\* the position of the j-th comma of s
nth_comma(s, j) ==
    CHOOSE i \in 1..Len(s) :
        s[i] = "," /\ Cardinality({c \in 1..(i - 1) : s[c] = ","}) = j - 1

\* str::split(',') then trim: piece k of s (1-based), absent if there are fewer
split_comma(s, k) ==
    Val([commas \in {Cardinality({i \in 1..Len(s) : s[i] = ","})} |->
        IF commas < k - 1 THEN None
        ELSE Some(trim(SubSeq(s, IF k = 1 THEN 1 ELSE nth_comma(s, k - 1) + 1,
                                 IF commas >= k THEN nth_comma(s, k) - 1 ELSE Len(s))))])

\* delimited(hws(tag("(")), take_until(")"), tag(")"))
parenthesized(in) ==
    Val([lp \in {hws(LAMBDA j : tag(<<"(">>, j), in)} |-> IF lp.tag # "Ok" THEN lp ELSE
    Val([n \in {SpanUntil(lp.rest, {")"})} |->
        IF n = Len(lp.rest) THEN Error(lp.rest, "TakeUntil")
        ELSE Ok(Drop(lp.rest, n + 1), Take(lp.rest, n))])])

\* the suffix tests with the letter case ignored: used to show that only
\* upper-case letters are suffixes
output_suffix_any_case(var) ==
    IF ends_with(str_to_ascii_uppercase(var), <<"M">>) THEN Some("Magnitude")
    ELSE IF ends_with(str_to_ascii_uppercase(var), <<"D","B">>) THEN Some("Decibel")
    ELSE IF ends_with(str_to_ascii_uppercase(var), <<"P">>) THEN Some("Phase")
    ELSE IF ends_with(str_to_ascii_uppercase(var), <<"R">>) THEN Some("Real")
    ELSE IF ends_with(str_to_ascii_uppercase(var), <<"I">>) THEN Some("Imag")
    ELSE None

output_suffix(var) ==
    IF ends_with(var, <<"M">>) THEN Some("Magnitude")
    ELSE IF ends_with(var, <<"D","B">>) THEN Some("Decibel")
    ELSE IF ends_with(var, <<"P">>) THEN Some("Phase")
    ELSE IF ends_with(var, <<"R">>) THEN Some("Real")
    ELSE IF ends_with(var, <<"I">>) THEN Some("Imag")
    ELSE None

output_variable(in) ==
    Val([kind \in {hws(LAMBDA i : first_tag_no_case(<<<<"V">>, <<"I">>>>, 1, i), in)} |-> IF kind.tag # "Ok" THEN kind ELSE
    Val([var \in {hws(parenthesized, kind.rest)} |-> IF var.tag # "Ok" THEN var ELSE
        IF eq_ignore_ascii_case(kind.val, <<"V">>)
        THEN Ok(var.rest, [kind |-> "Voltage",
                           node1 |-> unwrap_or(split_comma(var.val, 1), <<>>),
                           node2 |-> split_comma(var.val, 2),
                           suffix |-> output_suffix(var.val)])
        ELSE Ok(var.rest, [kind |-> "Current", element_name |-> var.val,
                           suffix |-> output_suffix(var.val)])])])

\* alt((map(tag_no_case("RISE"), Rise), map(tag_no_case("FALL"), Fall)))
edge_type(in) ==
    Val([r \in {first_tag_no_case(<<<<"R","I","S","E">>, <<"F","A","L","L">>>>, 1, in)} |-> IF r.tag # "Ok" THEN r ELSE
        Ok(r.rest, IF str_to_ascii_uppercase(r.val) = <<"R","I","S","E">> THEN "Rise" ELSE "Fall")])

trig_targ_condition(in) ==
    Val([v \in {hws(output_variable, in)} |-> IF v.tag # "Ok" THEN v ELSE
    Val([kw \in {hws(LAMBDA i : tag_no_case(<<"V","A","L","=">>, i), v.rest)} |-> IF kw.tag # "Ok" THEN kw ELSE
    Val([n \in {hws(number, kw.rest)} |-> IF n.tag # "Ok" THEN n ELSE
    Val([e \in {hws(edge_type, n.rest)} |-> IF e.tag # "Ok" THEN e ELSE
    Val([q \in {hws(LAMBDA i : tag(<<"=">>, i), e.rest)} |-> IF q.tag # "Ok" THEN q ELSE
    Val([c \in {hws(unsigned_int, q.rest)} |-> IF c.tag # "Ok" THEN c ELSE
        Ok(c.rest, [variable |-> v.val, value |-> n.val, edge |-> e.val,
                    number |-> c.val])])])])])])])

finwhen_condition(in) ==
    Val([v \in {hws(output_variable, in)} |-> IF v.tag # "Ok" THEN v ELSE
    Val([q \in {hws(LAMBDA i : tag(<<"=">>, i), v.rest)} |-> IF q.tag # "Ok" THEN q ELSE
    Val([n \in {hws(number, q.rest)} |-> IF n.tag # "Ok" THEN n ELSE
        Ok(n.rest, [variable |-> v.val, value |-> n.val])])])])

measure_rise(in, name, analysis) ==
    Val([kw \in {hws(LAMBDA i : tag_no_case(<<"T","R","I","G">>, i), in)} |-> IF kw.tag # "Ok" THEN kw ELSE
    Val([tr \in {to_failure(hws(trig_targ_condition, kw.rest))} |-> IF tr.tag # "Ok" THEN tr ELSE
    Val([kw2 \in {to_failure(hws(LAMBDA i : tag_no_case(<<"T","A","R","G">>, i), tr.rest))} |-> IF kw2.tag # "Ok" THEN kw2 ELSE
    Val([ta \in {to_failure(hws(trig_targ_condition, kw2.rest))} |-> IF ta.tag # "Ok" THEN ta ELSE
        Ok(ta.rest, [name |-> name, analysis |-> analysis, trig |-> tr.val,
                     targ |-> ta.val])])])])])

\* preceded(hws(tag_no_case(kw)), hws(time_number))
keyword_time(kw, in) ==
    Val([k \in {hws(LAMBDA j : tag_no_case(kw, j), in)} |-> IF k.tag # "Ok" THEN k ELSE
        hws(time_number, k.rest)])

measure_basic_stat(in, name, analysis) ==
    Val([st \in {hws(measure_function, in)} |-> IF st.tag # "Ok" THEN st ELSE
    Val([v \in {to_failure(hws(output_variable, st.rest))} |-> IF v.tag # "Ok" THEN v ELSE
    Val([fr \in {to_failure(keyword_time(<<"F","R","O","M","=">>, v.rest))} |-> IF fr.tag # "Ok" THEN fr ELSE
    Val([to \in {to_failure(keyword_time(<<"T","O","=">>, fr.rest))} |-> IF to.tag # "Ok" THEN to ELSE
        Ok(to.rest, [name |-> name, analysis |-> analysis, stat |-> st.val,
                     variable |-> v.val, from |-> fr.val, to |-> to.val])])])])])

measure_find_when(in, name, analysis) ==
    Val([kw \in {hws(LAMBDA i : tag_no_case(<<"F","I","N","D">>, i), in)} |-> IF kw.tag # "Ok" THEN kw ELSE
    Val([v \in {to_failure(hws(output_variable, kw.rest))} |-> IF v.tag # "Ok" THEN v ELSE
    Val([kw2 \in {to_failure(hws(LAMBDA i : tag_no_case(<<"W","H","E","N">>, i), v.rest))} |-> IF kw2.tag # "Ok" THEN kw2 ELSE
    Val([c \in {to_failure(hws(finwhen_condition, kw2.rest))} |-> IF c.tag # "Ok" THEN c ELSE
        Ok(c.rest, [name |-> name, analysis |-> analysis, variable |-> v.val,
                    when |-> c.val])])])])])

MeasureAlts == <<"Rise", "BasicStat", "FindWhen">>
measure_alt(k, in, name, analysis) ==
    CASE k = 1 -> measure_rise(in, name, analysis)
      [] k = 2 -> measure_basic_stat(in, name, analysis)
      [] k = 3 -> measure_find_when(in, name, analysis)

\* an alt that tries the first form only: used to show that the keyword
\* after the name selects among three forms
measure_rise_only(k, in, name, analysis) ==
    Val([r \in {measure_rise(in, name, analysis)} |->
        IF r.tag = "Ok" THEN Ok(r.rest, [kind |-> "Rise", m |-> r.val]) ELSE r])

RECURSIVE measure_from(_, _, _, _)
measure_from(k, in, name, analysis) ==
    Val([r \in {measure_alt(k, in, name, analysis)} |->
        IF r.tag = "Ok" THEN Ok(r.rest, [kind |-> MeasureAlts[k], m |-> r.val])
        ELSE IF r.tag \in {"Failure", "Panic"} THEN r
        ELSE IF k < Len(MeasureAlts) THEN measure_from(k + 1, in, name, analysis)
        ELSE r])

measure_command(in) ==
    Val([kw \in {hws(LAMBDA i : tag_no_case(<<".","M","E","A","S">>, i), in)} |-> IF kw.tag # "Ok" THEN kw ELSE
    Val([an \in {to_failure(hws(analysis_type, kw.rest))} |-> IF an.tag # "Ok" THEN an ELSE
    Val([nm \in {to_failure(hws(identifier, an.rest))} |-> IF nm.tag # "Ok" THEN nm ELSE
        to_failure(measure_from(1, nm.rest, nm.val, an.val))])])])

(***************************************************************************)
(* Subcircuits and instances (parse/subckt.rs)                             *)
(***************************************************************************)
hws_node(in) == hws(node, in)

\* an instance that takes the first token after the name for the subcircuit
instance_name_first(in) ==
    Val([n \in {hws(identifier, in)} |-> IF n.tag # "Ok" THEN n ELSE
        IF ~begins_with(n.val, "X", "x") THEN Error(n.rest, "should begin with X")
        ELSE
        Val([args \in {many0(hws_node, n.rest)} |-> IF args.tag # "Ok" THEN args ELSE
            IF args.val = <<>> THEN Failure(args.rest, "missing subckt name")
            ELSE Ok(args.rest, [name |-> n.val,
                                pins |-> Drop(args.val, 1),
                                subckt_name |-> args.val[1]])])])

instance(in) ==
    Val([n \in {hws(identifier, in)} |-> IF n.tag # "Ok" THEN n ELSE
        IF ~begins_with(n.val, "X", "x") THEN Error(n.rest, "should begin with X")
        ELSE
        Val([args \in {many0(hws_node, n.rest)} |-> IF args.tag # "Ok" THEN args ELSE
            IF args.val = <<>> THEN Failure(args.rest, "missing subckt name")
            ELSE Ok(args.rest, [name |-> n.val,
                                pins |-> Take(args.val, Len(args.val) - 1),
                                subckt_name |-> args.val[Len(args.val)]])])])

subckt_decl(in) ==
    Val([n \in {hws(identifier, in)} |-> IF n.tag # "Ok" THEN n ELSE
    Val([ports \in {many0(hws_node, n.rest)} |-> IF ports.tag # "Ok" THEN ports ELSE
        Ok(ports.rest, <<n.val, ports.val>>)])])

\* an end of the body loop that leaves the .ends line in the input
ends_line_kept(i) == i

\* the .ENDS branch of the loop of subckt: the rest of the line is dropped
after_ends_line(i) ==
    Val([pos \in {find_newline(i)} |-> IF pos > 0 THEN Drop(i, pos) ELSE <<>>])

\* a subckt that reads the header line only and leaves the body to its caller
subckt_header_only(in) ==
    Val([kw \in {hws(LAMBDA i : tag_no_case(<<".","S","U","B","C","K","T">>, i), in)} |-> IF kw.tag # "Ok" THEN kw ELSE
    Val([decl \in {to_failure(hws(subckt_decl, kw.rest))} |-> IF decl.tag # "Ok" THEN decl ELSE
        Ok(decl.rest, [name |-> decl.val[1], ports |-> decl.val[2],
                       components |-> <<>>, instances |-> <<>>])])])

RECURSIVE subckt_body(_, _, _)
\* the line-by-line loop of subckt, entered with the components and instances
\* collected so far
subckt_body(in, components, instances) ==
    Val([i \in {trim_start(in)} |->
    Val([cm \in {comment(i)} |->
        IF cm.tag = "Ok" THEN subckt_body(cm.rest, components, instances)
        ELSE IF starts_with(str_to_ascii_lowercase(i), <<".","e","n","d","s">>)
        THEN Ok(after_ends_line(i), [components |-> components, instances |-> instances])
        ELSE
        Val([c \in {hws(component, i)} |->
            IF c.tag = "Ok" THEN subckt_body(c.rest, Append(components, c.val), instances)
            ELSE IF c.tag \in {"Failure", "Panic"} THEN c
            ELSE
            Val([x \in {hws(instance, i)} |->
                IF x.tag = "Ok"
                THEN subckt_body(x.rest, components, Append(instances, x.val))
                ELSE IF x.tag \in {"Failure", "Panic"} THEN x
                ELSE Failure(i, "unknown line in subckt")])])])])

\* one iteration of the line-by-line loop of subckt; acc holds the
\* components and instances collected so far
subckt_iteration(in, acc) ==
    Val([i \in {trim_start(in)} |->
    Val([cm \in {comment(i)} |->
        IF cm.tag = "Ok" THEN Continue(cm.rest, acc)
        ELSE IF starts_with(str_to_ascii_lowercase(i), <<".","e","n","d","s">>)
        THEN Break(Ok(after_ends_line(i), acc))
        ELSE
        Val([c \in {hws(component, i)} |->
            IF c.tag = "Ok"
            THEN Continue(c.rest, [acc EXCEPT !.components = Append(@, c.val)])
            ELSE IF c.tag \in {"Failure", "Panic"} THEN Break(c)
            ELSE
            Val([x \in {hws(instance, i)} |->
                IF x.tag = "Ok"
                THEN Continue(x.rest, [acc EXCEPT !.instances = Append(@, x.val)])
                ELSE IF x.tag \in {"Failure", "Panic"} THEN Break(x)
                ELSE Break(Failure(i, "unknown line in subckt"))])])])])

subckt(in) ==
    Val([kw \in {hws(LAMBDA i : tag_no_case(<<".","S","U","B","C","K","T">>, i), in)} |-> IF kw.tag # "Ok" THEN kw ELSE
    Val([decl \in {to_failure(hws(subckt_decl, kw.rest))} |-> IF decl.tag # "Ok" THEN decl ELSE
    Val([body \in {subckt_body(decl.rest, <<>>, <<>>)} |-> IF body.tag # "Ok" THEN body ELSE
        Ok(body.rest, [name |-> decl.val[1], ports |-> decl.val[2],
                       components |-> body.val.components,
                       instances |-> body.val.instances])])])])

(***************************************************************************)
(* The statement dispatcher and the driver (parse/mod.rs)                  *)
(***************************************************************************)
StatementAlts == <<"Component", "Source", "SimCommand", "Measure", "Instance", "Subckt", "Model">>

statement_alt(k, in) ==
    CASE k = 1 -> component(in)
      [] k = 2 -> source(in)
      [] k = 3 -> sim_command(in)
      [] k = 4 -> measure_command(in)
      [] k = 5 -> instance(in)
      [] k = 6 -> subckt(in)
      [] k = 7 -> model(in)

RECURSIVE statement_keep_trying(_, _)
\* an alt that treats a Failure as it treats an Error: the next alternative
\* is tried
statement_keep_trying(k, in) ==
    Val([r \in {statement_alt(k, in)} |->
        IF r.tag = "Ok"
        THEN Ok(r.rest, [kind |-> StatementAlts[k], v |-> r.val])
        ELSE IF r.tag = "Panic" THEN r
        ELSE IF k < Len(StatementAlts) THEN statement_keep_trying(k + 1, in)
        ELSE Error(r.at, r.ctx)])

RECURSIVE statement_from(_, _)
\* alt over the seven statement parsers from alternative k on: the first
\* result that is not a recoverable Error is returned
statement_from(k, in) ==
    Val([r \in {statement_alt(k, in)} |->
        IF r.tag = "Ok"
        THEN Ok(r.rest, [kind |-> StatementAlts[k], v |-> r.val])
        ELSE IF r.tag \in {"Failure", "Panic"} THEN r
        ELSE IF k < Len(StatementAlts) THEN statement_from(k + 1, in)
        ELSE r])

statement(in) == statement_from(1, in)

RECURSIVE statement_in_order(_, _, _)
\* alt over the seven statement parsers tried in the order given, from the
\* j-th place on
statement_in_order(order, j, in) ==
    Val([r \in {statement_alt(order[j], in)} |->
        IF r.tag = "Ok"
        THEN Ok(r.rest, [kind |-> StatementAlts[order[j]], v |-> r.val])
        ELSE IF r.tag \in {"Failure", "Panic"} THEN r
        ELSE IF j < Len(order) THEN statement_in_order(order, j + 1, in)
        ELSE r])

\* a skipper of blank lines that knows no comment
skip_blank_lines(in) == trim_start(in)

RECURSIVE skip_blank_or_comment_lines(_)
skip_blank_or_comment_lines(in) ==
    Val([i \in {trim_start(in)} |->
        IF i = <<>> THEN <<>>
        ELSE Val([c \in {comment(i)} |->
                 IF c.tag = "Ok" THEN skip_blank_or_comment_lines(c.rest)
                 ELSE IF starts_with(i, <<"\n">>) THEN skip_blank_or_comment_lines(Drop(i, 1))
                 ELSE i])])

\* one iteration of the loop of skip_blank_or_comment_lines that never gets
\* past a comment line: used to show that termination rests on consumption
skip_iteration_stuck(in) ==
    Val([i \in {trim_start(in)} |->
        IF i = <<>> THEN Break(<<>>)
        ELSE Val([c \in {comment(i)} |->
                 IF c.tag = "Ok" THEN Continue(i, <<>>)
                 ELSE IF starts_with(i, <<"\n">>) THEN Continue(Drop(i, 1), <<>>)
                 ELSE Break(i)])])

\* one iteration of the loop of skip_blank_or_comment_lines
skip_iteration(in) ==
    Val([i \in {trim_start(in)} |->
        IF i = <<>> THEN Break(<<>>)
        ELSE Val([c \in {comment(i)} |->
                 IF c.tag = "Ok" THEN Continue(c.rest, <<>>)
                 ELSE IF starts_with(i, <<"\n">>) THEN Continue(Drop(i, 1), <<>>)
                 ELSE Break(i)])])

get_error_line(full, error_input) ==
    Cardinality({k \in 1..(Len(full) - Len(error_input)) : full[k] = "\n"}) + 1

\* input.lines().next() as it stands, not trimmed
first_line(in) == Take(in, SpanUntil(in, {"\n"}))

\* input.lines().next(), trimmed
preview_line(in) ==
    trim(Take(in, SpanUntil(in, {"\n"})))

SpiceDefault ==
    [components |-> <<>>, sources |-> <<>>, simulation |-> <<>>, measures |-> <<>>,
     subckts |-> <<>>, instances |-> <<>>, model |-> <<>>]

\* a push that puts the entity in front of the sequence of its kind
push_front(sp, stmt) ==
    CASE stmt.kind = "Component" -> [sp EXCEPT !.components = <<stmt.v>> \o @]
      [] stmt.kind = "Source" -> [sp EXCEPT !.sources = <<stmt.v>> \o @]
      [] stmt.kind = "SimCommand" -> [sp EXCEPT !.simulation = <<stmt.v>> \o @]
      [] stmt.kind = "Measure" -> [sp EXCEPT !.measures = <<stmt.v>> \o @]
      [] stmt.kind = "Instance" -> [sp EXCEPT !.instances = <<stmt.v>> \o @]
      [] stmt.kind = "Subckt" -> [sp EXCEPT !.subckts = <<stmt.v>> \o @]
      [] stmt.kind = "Model" -> [sp EXCEPT !.model = <<stmt.v>> \o @]

\* the match on the parsed statement: push onto the sequence of its kind
push_statement(sp, stmt) ==
    CASE stmt.kind = "Component" -> [sp EXCEPT !.components = Append(@, stmt.v)]
      [] stmt.kind = "Source" -> [sp EXCEPT !.sources = Append(@, stmt.v)]
      [] stmt.kind = "SimCommand" -> [sp EXCEPT !.simulation = Append(@, stmt.v)]
      [] stmt.kind = "Measure" -> [sp EXCEPT !.measures = Append(@, stmt.v)]
      [] stmt.kind = "Instance" -> [sp EXCEPT !.instances = Append(@, stmt.v)]
      [] stmt.kind = "Subckt" -> [sp EXCEPT !.subckts = Append(@, stmt.v)]
      [] stmt.kind = "Model" -> [sp EXCEPT !.model = Append(@, stmt.v)]

\* the head of the driver loop: the input statement() is called on, or the
\* empty text when the loop is left
loop_head(in) ==
    IF trim_start(in) = <<>> THEN <<>> ELSE skip_blank_or_comment_lines(in)

\* what read_spice returns
Running == [tag |-> "Running"]
ReturnOk(sp) == [tag |-> "Ok", spice |-> sp]
ReturnFailure(full, e) ==
    [tag |-> "Err", kind |-> "Error at line", line |-> get_error_line(full, e.at), ctx |-> e.ctx]
ReturnUnknown(full, in) ==
    [tag |-> "Err", kind |-> "Unknown statement", line |-> get_error_line(full, in),
     text |-> preview_line(in)]
\* statement() aborted: read_spice does not return
Aborted(e) == [tag |-> "Panic", ctx |-> e.ctx]

\* a match that recovers: the rest of the line statement() failed on is
\* dropped and the loop goes on
match_resync(full, h, r, sp) ==
    IF r.tag = "Ok"
    THEN [result |-> Running, spice |-> push_statement(sp, r.val), input |-> r.rest]
    ELSE IF r.tag = "Panic"
    THEN [result |-> Aborted(r), spice |-> sp, input |-> h]
    ELSE [result |-> Running, spice |-> sp, input |-> Drop(h, SpanUntil(h, {"\n"}))]

\* the match on statement(h) in the loop of read_spice, h being the loop
\* head: the result (Running while the loop goes on), the document and the
\* remaining input it leaves
match_statement(full, h, r, sp) ==
    IF r.tag = "Ok"
    THEN [result |-> Running, spice |-> push_statement(sp, r.val), input |-> r.rest]
    ELSE IF r.tag = "Failure"
    THEN [result |-> ReturnFailure(full, r), spice |-> sp, input |-> h]
    ELSE IF r.tag = "Panic"
    THEN [result |-> Aborted(r), spice |-> sp, input |-> h]
    ELSE [result |-> ReturnUnknown(full, h), spice |-> sp, input |-> h]

\* one iteration of the while loop of read_spice.  When nothing but
\* whitespace remains the loop is not entered and input stays as it is;
\* when the loop is entered and nothing but blank and comment lines remain,
\* input is the empty text the skipper returned and the loop is left
iteration(full, in, sp) ==
    IF trim_start(in) = <<>> THEN [result |-> ReturnOk(sp), spice |-> sp, input |-> in]
    ELSE
    Val([h \in {skip_blank_or_comment_lines(in)} |->
        IF h = <<>> THEN [result |-> ReturnOk(sp), spice |-> sp, input |-> h]
        ELSE match_statement(full, h, statement(h), sp)])

RECURSIVE read_spice_from(_, _, _)
\* read_spice from the loop state (in, sp) to its return value
read_spice_from(full, in, sp) ==
    Val([it \in {iteration(full, in, sp)} |->
        IF it.result.tag = "Running" THEN read_spice_from(full, it.input, it.spice)
        ELSE it.result])

read_spice(full) == read_spice_from(full, full, SpiceDefault)

(***************************************************************************)
(* Inputs of read_spice.  A statement is written as its physical lines and *)
(* carries what it is: the kind of entity it yields ("Fatal" when a field  *)
(* after its commitment point is wrong, "Unknown" when no alternative      *)
(* takes it, "Abort" when statement() aborts on it), the name stored for   *)
(* it, and for a subcircuit the names of the components and instances of   *)
(* its body.  A netlist is up to MaxStmts statements of StmtPool, one of   *)
(* the netlists of the tests of parse/mod.rs, or one of NonAscii, written  *)
(* in one of the Styles (what stands before the first line, between two    *)
(* lines, after the last one).                                             *)
(***************************************************************************)
MaxStmts == 2

Stmt(lines, kind, name) ==
    [lines |-> lines, kind |-> kind, name |-> name, components |-> <<>>, instances |-> <<>>]
SubcktStmt(lines, kind, name, components, instances) ==
    [lines |-> lines, kind |-> kind, name |-> name, components |-> components,
     instances |-> instances]

StmtPool == <<
    Stmt(<<<<"R","1"," ","a"," ","b"," ","1","k">>>>, "Component", <<"1">>),
    Stmt(<<<<"V","1"," ","a"," ","0"," ","D","C"," ","5">>>>, "Source", <<"1">>),
    Stmt(<<<<".","T","R","A","N"," ","1","n"," ","1","0","n">>>>, "SimCommand", <<>>),
    Stmt(<<<<".","M","E","A","S"," ","T","R","A","N"," ","t"," ","F","I","N","D"," ","I","(","V","1",")"," ","W","H","E","N"," ","V","(","a",")","=","1">>>>, "Measure", <<"t">>),
    Stmt(<<<<"X","1"," ","a"," ","b"," ","i","n","v">>>>, "Instance", <<"X","1">>),
    SubcktStmt(<<<<".","S","U","B","C","K","T"," ","i","n","v"," ","a"," ","b">>, <<"M","1"," ","a"," ","b"," ","a"," ","a"," ","p","m"," ","L","=","1","u"," ","W","=","2","u">>, <<"X","2"," ","a"," ","b"," ","b","u","f">>, <<".","E","N","D","S">>>>,
               "Subckt", <<"i","n","v">>, <<<<"1">>>>, <<<<"X","2">>>>),
    Stmt(<<<<".","m","o","d","e","l"," ","n","m"," ","N","M","O","S"," ","(","V","T","O","=","1",")">>>>, "Model", <<"n","m">>),
    Stmt(<<<<"C","2"," ","a"," ","b"," ","_">>>>, "Fatal", <<>>),
    Stmt(<<<<"L","3"," ","a","\n","+"," ","b","\n","+"," ","_">>>>, "Fatal", <<>>),
    SubcktStmt(<<<<".","S","U","B","C","K","T"," ","s","2"," ","a">>, <<"R","4"," ","a"," ","0"," ","1">>, <<"V","9"," ","a"," ","0"," ","1">>, <<".","e","n","d","s"," ","s","2">>>>,
               "Fatal", <<"s","2">>, <<<<"4">>>>, <<>>),
    Stmt(<<<<"C","1"," ","b"," ","0"," ","1","u">>>>, "Component", <<"1">>),
    Stmt(<<<<"T","H","I","S","_","I","S","_","I","N","V","A","L","I","D"," "," ">>>>, "Unknown", <<>>) >>

\* test_read_spice_basic, test_read_spice_with_subckt_and_instance and the
\* netlist of "Unknown statement"
Examples == {
    << Stmt(<<<<"R","1"," ","i","n"," ","o","u","t"," ","1","0","k">>>>, "Component", <<"1">>),
       Stmt(<<<<"C","1"," ","o","u","t"," ","0"," ","1","u">>>>, "Component", <<"1">>),
       Stmt(<<<<"V","1"," ","i","n"," ","0"," ","D","C"," ","5">>>>, "Source", <<"1">>),
       Stmt(<<<<".","T","R","A","N"," ","1","n"," ","1","0","n">>>>, "SimCommand", <<>>),
       Stmt(<<<<".","M","E","A","S"," ","T","R","A","N"," ","r","i","s","e","_","t","i","m","e"," ","T","R","I","G"," ","V","(","o","u","t",")"," ","V","A","L","=","0",".","2"," ","R","I","S","E","=","1"," ","T","A","R","G"," ","V","(","o","u","t",")"," ","V","A","L","=","0",".","8"," ","R","I","S","E","=","1">>>>,
            "Measure", <<"r","i","s","e","_","t","i","m","e">>) >>,
    << SubcktStmt(<<<<".","S","U","B","C","K","T"," ","i","n","v"," ","i","n"," ","o","u","t"," ","v","d","d"," ","g","n","d">>, <<"M","1"," ","o","u","t"," ","i","n"," ","v","d","d"," ","v","d","d"," ","p","m","o","s"," ","L","=","1","u"," ","W","=","2","u">>,
                    <<"M","2"," ","o","u","t"," ","i","n"," ","g","n","d"," ","g","n","d"," ","n","m","o","s"," ","L","=","1","u"," ","W","=","1","u">>, <<".","E","N","D","S">>>>,
                  "Subckt", <<"i","n","v">>, <<<<"1">>, <<"2">>>>, <<>>),
       Stmt(<<<<"X","1"," ","a"," ","b"," ","v","d","d"," ","g","n","d"," ","i","n","v">>>>, "Instance", <<"X","1">>) >>,
    << Stmt(<<<<"R","1"," ","i","n"," ","o","u","t"," ","1","k">>>>, "Component", <<"1">>),
       Stmt(<<<<"T","H","I","S","_","I","S","_","I","N","V","A","L","I","D">>>>, "Unknown", <<>>) >> }

\* Netlists with characters outside ASCII: a capacitor whose value ends in
\* the kelvin sign U+212A, on which statement() aborts (kind "Abort"), and a
\* resistor that stands between a no-break space U+00A0 and a line
\* separator U+2028, which trim_start strips and smart_space0 does not
KelvinStmt == Stmt(<<<<"C","5"," ","a"," ","b"," ","1","U+212A">>>>, "Abort", <<>>)
SpacedStmt == Stmt(<<<<"U+00A0","R","6"," ","a"," ","b"," ","1","k","U+2028">>>>, "Component", <<"6">>)
NonAscii ==
    {<<KelvinStmt>>, <<StmtPool[1], KelvinStmt>>, <<KelvinStmt, StmtPool[1]>>,
     <<SpacedStmt>>, <<SpacedStmt, StmtPool[3]>>, <<StmtPool[2], SpacedStmt>>,
     <<SpacedStmt, KelvinStmt>>}

Generated ==
    UNION {{[i \in 1..n |-> StmtPool[pick[i]]] : pick \in [1..n -> 1..Len(StmtPool)]} :
           n \in 1..MaxStmts}

Styles == <<
    [lead |-> <<>>, gap |-> <<"\n">>, trail |-> <<>>],
    [lead |-> <<"\n">>, gap |-> <<"\n"," "," ","\n">>, trail |-> <<"\n">>],
    [lead |-> <<"*"," ","c","\n">>, gap |-> <<"\n","*"," ","c"," ","d","\n">>, trail |-> <<"\n",";"," ","c">>],
    [lead |-> <<" ","\r","\n">>, gap |-> <<"\r","\n"," ",";","x","\r","\n","\t","\r","\n">>, trail |-> <<"\r","\n","*">>] >>

RECURSIVE Join(_, _)
Join(lines, gap) ==
    IF lines = <<>> THEN <<>>
    ELSE IF Len(lines) = 1 THEN lines[1]
    ELSE lines[1] \o gap \o Join(Tail(lines), gap)

RECURSIVE Flatten(_)
Flatten(ss) == IF ss = <<>> THEN <<>> ELSE ss[1] \o Flatten(Tail(ss))

\* the physical lines of a netlist
LinesOf(ss) == Flatten([i \in 1..Len(ss) |-> ss[i].lines])

Written(ss, style) == style.lead \o Join(LinesOf(ss), style.gap) \o style.trail

NoCall == p_in = [cls |-> "none", text |-> <<>>] /\ p_fn = "none" /\ p_out = [tag |-> "None"]
          /\ p_back = [tag |-> "None"]

Init ==
    /\ stmts \in Generated \cup Examples \cup NonAscii
    /\ \E s \in 1..Len(Styles) : full_input = Written(stmts, Styles[s])
    /\ base_input = Written(stmts, Styles[1])
    /\ input = full_input
    /\ spice = SpiceDefault
    /\ result = Running
    /\ trace = <<>>
    /\ NoCall

\* one record of the history: where statement() was called and how it ended
Called(h, r) ==
    [pos |-> Len(full_input) - Len(h), tag |-> r.tag,
     kind |-> IF r.tag = "Ok" THEN r.val.kind ELSE "none"]

\* the match on what statement() returned on the loop head h
Matched(h, r) ==
    \E m \in {match_statement(full_input, h, r, spice)} :
        /\ result' = m.result
        /\ spice' = m.spice
        /\ input' = m.input
        /\ trace' = Append(trace, Called(h, r))
        /\ UNCHANGED <<full_input, base_input, stmts, p_in, p_fn, p_out, p_back>>

\* the loop is left (nothing but blank and comment lines remain): Ok(spice)
Return ==
    /\ result = Running
    /\ loop_head(input) = <<>>
    /\ \E it \in {iteration(full_input, input, spice)} :
          result' = it.result /\ input' = it.input
    /\ UNCHANGED <<full_input, spice, trace, base_input, stmts, p_in, p_fn, p_out, p_back>>

\* statement() succeeded: the entity is pushed and the loop goes on
Push ==
    /\ result = Running
    /\ \E h \in {loop_head(input)} :
          /\ h # <<>>
          /\ \E r \in {statement(h)} : r.tag = "Ok" /\ Matched(h, r)

\* statement() failed fatally: read_spice returns the line-numbered error
Fatal ==
    /\ result = Running
    /\ \E h \in {loop_head(input)} :
          /\ h # <<>>
          /\ \E r \in {statement(h)} : r.tag = "Failure" /\ Matched(h, r)

\* every alternative rejected the line: read_spice returns "Unknown statement"
Unknown ==
    /\ result = Running
    /\ \E h \in {loop_head(input)} :
          /\ h # <<>>
          /\ \E r \in {statement(h)} : r.tag = "Error" /\ Matched(h, r)

\* statement() aborted (a panic): read_spice returns nothing
Abort ==
    /\ result = Running
    /\ \E h \in {loop_head(input)} :
          /\ h # <<>>
          /\ \E r \in {statement(h)} : r.tag = "Panic" /\ Matched(h, r)

Next == Return \/ Push \/ Fatal \/ Unknown \/ Abort

Spec == Init /\ [][Next]_vars

(***************************************************************************)
(* Calls of single productions.  A call is a production name p_fn and an   *)
(* input p_in.text; p_in also records how the text was written:            *)
(*   "damage"  a valid line of the production with the name's first letter *)
(*             replaced, and one mandatory field cut off with all after    *)
(*             it ("cut"), replaced by a token no field accepts ("bad"),   *)
(*             or put on the next physical line ("newline"), or left       *)
(*             whole ("none")                                              *)
(*   "cont"    a valid line with the whitespace between two fields         *)
(*             replaced by a line continuation; p_in.plain is the line     *)
(*             with single spaces                                          *)
(*   "space"   any text over SpaceAlphabet, for smart_space0               *)
(*   "subckt"  a .SUBCKT header, body lines, an end line and what follows  *)
(***************************************************************************)
MaxSpaceLen == 4
MaxBody == 2

JoinSp(fields) == Join(fields, <<" ">>)

\* the letter(s), in upper case, a production demands of the name
ProdLetters(fn) ==
    CASE fn = "resistor" -> {"R"} [] fn = "capacitor" -> {"C"} [] fn = "inductor" -> {"L"}
      [] fn = "diode" -> {"D"} [] fn = "bjt" -> {"Q"} [] fn = "mos_fet" -> {"M"}
      [] fn = "source" -> {"V", "I"} [] fn = "instance" -> {"X"}

\* valid lines, field by field; the first mand fields are mandatory
LetterLines == {
    [fn |-> "resistor", fields |-> <<<<"R","h","h","h">>, <<"1">>, <<"n","2">>, <<"1",".","5","k">>>>, mand |-> 4],
    [fn |-> "capacitor", fields |-> <<<<"C","1">>, <<"a">>, <<"b">>, <<"1","u">>>>, mand |-> 4],
    [fn |-> "inductor", fields |-> <<<<"L","1">>, <<"a">>, <<"b">>, <<"1","m">>>>, mand |-> 4],
    [fn |-> "diode", fields |-> <<<<"D","1">>, <<"a">>, <<"k">>, <<"d","m">>>>, mand |-> 4],
    [fn |-> "bjt", fields |-> <<<<"Q","1">>, <<"c">>, <<"b">>, <<"e">>, <<"q","m">>>>, mand |-> 5],
    [fn |-> "mos_fet", fields |-> <<<<"M","1">>, <<"d">>, <<"g">>, <<"s">>, <<"b">>, <<"n","m">>, <<"L","=","1","u">>, <<"W","=","2","u">>>>, mand |-> 8],
    [fn |-> "source", fields |-> <<<<"V","1">>, <<"a">>, <<"0">>, <<"D","C">>, <<"5">>>>, mand |-> 5],
    [fn |-> "source", fields |-> <<<<"I","1">>, <<"a">>, <<"0">>, <<"S","I","N">>, <<"(">>, <<"0">>, <<"1">>, <<"1","k">>, <<")">>>>, mand |-> 9],
    [fn |-> "instance", fields |-> <<<<"X","1">>, <<"a">>, <<"b">>, <<"i","n","v">>>>, mand |-> 2] }

Letters == {"R", "r", "C", "c", "L", "D", "Q", "M", "m", "V", "i", "X", "x", "T"}

\* whitespace holding a newline that no '+' follows
BareGaps == <<<<"\n">>, <<" "," ","\r","\n">>, <<"\n","\t">>>>
Hows == {<<"cut", 0>>, <<"bad", 0>>} \cup {<<"newline", j>> : j \in 1..Len(BareGaps)}

Renamed(fields, letter) == <<<<letter>> \o Tail(fields[1])>> \o Tail(fields)

Damaged(fields, k, how) ==
    CASE how[1] = "cut" -> JoinSp(SubSeq(fields, 1, k - 1))
      [] how[1] = "bad" -> JoinSp([fields EXCEPT ![k] = <<"?">>])
      [] how[1] = "newline" -> JoinSp(SubSeq(fields, 1, k - 1)) \o BareGaps[how[2]]
                  \o JoinSp(SubSeq(fields, k, Len(fields)))

DamageCall(fn, fields, letter, how, text) ==
    [fn |-> fn,
     in |-> [cls |-> "damage", text |-> text, plain |-> JoinSp(fields),
             letter_ok |-> to_ascii_uppercase(letter) \in ProdLetters(fn),
             how |-> how[1]]]

DamageCalls ==
    UNION {UNION {
        {DamageCall(l.fn, Renamed(l.fields, c), c, <<"none", 0>>, JoinSp(Renamed(l.fields, c)))}
        \cup {DamageCall(l.fn, Renamed(l.fields, c), c, how, Damaged(Renamed(l.fields, c), k, how)) :
                 k \in 2..l.mand, how \in Hows}
        : c \in Letters} : l \in LetterLines}

\* resistor("Rhhh 1 n2 _") of test_basic_failed
ExampleCalls == {
    [fn |-> "resistor",
     in |-> [cls |-> "damage", text |-> <<"R","h","h","h"," ","1"," ","n","2"," ","_">>, plain |-> <<"R","h","h","h"," ","1"," ","n","2"," ","1",".","5","k">>,
             letter_ok |-> TRUE, how |-> "bad"]] }

ContLines == {
    [fn |-> "resistor", fields |-> <<<<"R","1">>, <<"a">>, <<"b">>, <<"1","k">>>>],
    [fn |-> "capacitor", fields |-> <<<<"C","1">>, <<"a">>, <<"b">>, <<"1","u">>>>],
    [fn |-> "inductor", fields |-> <<<<"L","1">>, <<"a">>, <<"b">>, <<"1","m">>>>],
    [fn |-> "diode", fields |-> <<<<"D","1">>, <<"a">>, <<"k">>, <<"d","m">>>>],
    [fn |-> "bjt", fields |-> <<<<"Q","1">>, <<"c">>, <<"b">>, <<"e">>, <<"q","m">>>>],
    [fn |-> "mos_fet", fields |-> <<<<"M","1">>, <<"d">>, <<"g">>, <<"s">>, <<"b">>, <<"n","m">>, <<"L">>, <<"=">>, <<"1","u">>, <<"W","=","2","u">>, <<"A","D","=","1">>>>],
    [fn |-> "source", fields |-> <<<<"V","1">>, <<"1">>, <<"0">>, <<"D","C">>, <<"5">>>>],
    [fn |-> "source", fields |-> <<<<"I","1">>, <<"a">>, <<"0">>, <<"A","C">>, <<"1">>, <<"9","0">>>>],
    [fn |-> "source", fields |-> <<<<"V","2">>, <<"a">>, <<"0">>, <<"S","I","N">>, <<"(">>, <<"0">>, <<"1">>, <<"1","k">>, <<")">>>>],
    [fn |-> "source", fields |-> <<<<"V","3">>, <<"a">>, <<"0">>, <<"P","W","L">>, <<"(">>, <<"0">>, <<"0">>, <<"1","n">>, <<"5">>, <<")">>>>],
    [fn |-> "source", fields |-> <<<<"V","4">>, <<"a">>, <<"0">>, <<"P","U","L","S","E">>, <<"(">>, <<"0">>, <<"5">>, <<"1","n">>, <<"1","n">>, <<"1","n">>, <<"5","n">>, <<"1","0","n">>, <<")">>>>],
    [fn |-> "sim_command", fields |-> <<<<".","D","C">>, <<"V","1">>, <<"0">>, <<"5">>, <<"1">>>>],
    [fn |-> "sim_command", fields |-> <<<<".","A","C">>, <<"D","E","C">>, <<"1","0">>, <<"1">>, <<"1","k">>>>],
    [fn |-> "sim_command", fields |-> <<<<".","T","R","A","N">>, <<"1","n">>, <<"1","0","n">>, <<"0">>, <<"1","n">>, <<"U","I","C">>>>],
    [fn |-> "instance", fields |-> <<<<"X","1">>, <<"a">>, <<"b">>, <<"i","n","v">>>>] }

\* whitespace holding a newline that '+' follows at once
ContGaps == {<<" ","\n","+"," ">>, <<"\n","+">>, <<"\r","\n","+","\t">>, <<" ","\n","+"," ","\n","+">>}

ContCalls ==
    UNION {{[fn |-> l.fn,
             in |-> [cls |-> "cont",
                     text |-> JoinSp(SubSeq(l.fields, 1, g)) \o gap
                              \o JoinSp(SubSeq(l.fields, g + 1, Len(l.fields))),
                     plain |-> JoinSp(l.fields)]] :
            g \in 1..(Len(l.fields) - 1), gap \in ContGaps} : l \in ContLines}

SpaceAlphabet == {" ", "\t", "\r", "\n", "+", "a"}
SpaceCalls ==
    UNION {{[fn |-> "smart_space0", in |-> [cls |-> "space", text |-> t]] :
            t \in [1..n -> SpaceAlphabet]} : n \in 0..MaxSpaceLen}

\* lines of a subcircuit body: what the body loop makes of each
BodyPool == <<
    [line |-> <<"R","1"," ","a"," ","b"," ","1","k">>, is |-> "component", name |-> <<"1">>],
    [line |-> <<"X","1"," ","a"," ","b"," ","i","n","v">>, is |-> "instance", name |-> <<"X","1">>],
    [line |-> <<"*"," ","n","o","t","e">>, is |-> "skipped", name |-> <<>>],
    [line |-> <<>>, is |-> "skipped", name |-> <<>>],
    [line |-> <<"V","1"," ","a"," ","0"," ","5">>, is |-> "bad", name |-> <<>>],
    [line |-> <<".","e","n","d">>, is |-> "bad", name |-> <<>>] >>
\* how the block ends: a line the loop takes for .ends, or nothing at all
EndPool == {[line |-> <<".","E","N","D","S">>, ends |-> TRUE], [line |-> <<".","e","n","d","s"," ","s">>, ends |-> TRUE],
            [line |-> <<".","E","n","D","s","X"," ","y">>, ends |-> TRUE], [line |-> <<>>, ends |-> FALSE]}
\* what follows the end line
Tails == {<<>>, <<"\n">>, <<"\r","\n","R","9"," ","a"," ","b"," ","1">>}

SubcktText(body, end, tail) ==
    <<".","S","U","B","C","K","T"," ","s"," ","a"," ","b","\n">> \o Flatten([i \in 1..Len(body) |-> BodyPool[body[i]].line \o <<"\n">>])
    \o end.line \o tail

SubcktCalls ==
    UNION {{[fn |-> "subckt",
             in |-> [cls |-> "subckt", text |-> SubcktText(body, end, tail),
                     body |-> body, ends |-> end.ends, tail |-> tail]] :
            body \in [1..n -> 1..Len(BodyPool)], end \in EndPool, tail \in Tails} :
           n \in 0..MaxBody}

\* instance lines: a name, then up to MaxTokens node tokens, then what follows
MaxTokens == 3
TokenPool == <<<<"a">>, <<"0">>, <<"i","n","v">>>>
\* the name, the gap between the fields and what follows the line
InstShapes == {[name |-> <<"X","1">>, gap |-> <<" ">>, tail |-> <<>>],
               [name |-> <<"x","u","2">>, gap |-> <<"\n","+"," ">>, tail |-> <<>>],
               [name |-> <<"X","1">>, gap |-> <<" ">>, tail |-> <<"\n","R","9"," ","a"," ","b"," ","1">>]}
InstText(name, toks, gap, tail) ==
    name \o Flatten([i \in 1..Len(toks) |-> gap \o TokenPool[toks[i]]]) \o tail
InstCalls ==
    UNION {{[fn |-> "instance",
             in |-> [cls |-> "inst", text |-> InstText(sh.name, toks, sh.gap, sh.tail),
                     name |-> sh.name, tokens |-> [i \in 1..n |-> TokenPool[toks[i]]],
                     tail |-> sh.tail]] :
            sh \in InstShapes, toks \in [1..n -> 1..Len(TokenPool)]} :
           n \in 0..MaxTokens}

\* MOSFET lines: the five mandatory fields, then up to MaxParams key=value pairs
MaxParams == 3
ParamPool == <<
    [key |-> <<"L">>, val |-> <<"1","u">>], [key |-> <<"l">>, val |-> <<"2","u">>],
    [key |-> <<"W">>, val |-> <<"3","u">>], [key |-> <<"w">>, val |-> <<"4">>],
    [key |-> <<"A","D">>, val |-> <<"5">>], [key |-> <<"a","d">>, val |-> <<"6">>], [key |-> <<"A","D">>, val |-> <<"7","p">>] >>
MosText(ps) ==
    <<"M","1"," ","d"," ","g"," ","s"," ","b"," ","n","m">> \o Flatten([i \in 1..Len(ps) |-> <<" ">> \o ParamPool[ps[i]].key \o <<"=">> \o ParamPool[ps[i]].val])
MosCalls ==
    UNION {{[fn |-> "mos_fet",
             in |-> [cls |-> "mos", text |-> MosText(ps),
                     pairs |-> [i \in 1..n |-> ParamPool[ps[i]]]]] :
            ps \in [1..n -> 1..Len(ParamPool)]} :
           n \in 0..MaxParams}

\* PWL lists: up to MaxPwl values between the parentheses
MaxPwl == 4
PwlPool == <<<<"0">>, <<"2","n">>, <<"1",".","8">>>>
PwlEnds == {<<")">>, <<" ",")">>, <<>>}
PwlText(vs, end) ==
    <<"P","W","L","(">> \o Join([i \in 1..Len(vs) |-> PwlPool[vs[i]]], <<" ">>) \o end
PwlCalls ==
    UNION {{[fn |-> "pwl_voltage",
             in |-> [cls |-> "pwl", text |-> PwlText(vs, end),
                     values |-> [i \in 1..n |-> PwlPool[vs[i]]], closed |-> end # <<>>]] :
            vs \in [1..n -> 1..Len(PwlPool)], end \in PwlEnds} :
           n \in 0..MaxPwl}

\* numbers: a magnitude, scale letters, the unit letter of the parser, a tail
NumberFns == {"number", "time_number", "voltage_number", "current_number",
              "resistance_number", "capacitance_number", "inductance_number"}
UnitOf(fn) ==
    CASE fn = "number" -> <<>> [] fn = "time_number" -> <<"s">> [] fn = "voltage_number" -> <<"v">>
      [] fn = "current_number" -> <<"A">> [] fn = "resistance_number" -> <<"OHM">>
      [] fn = "capacitance_number" -> <<"F">> [] fn = "inductance_number" -> <<"H">>
ScaleLetters == {<<>>, <<"g">>, <<"m","e","g">>, <<"k">>, <<"m">>, <<"u">>, <<"n">>, <<"p">>}
Magnitudes == {<<"1">>, <<"-","2",".","5">>}
NumTails == {<<>>, <<" ","7">>}
CaseStyles == {"lower", "upper", "capital"}
Cased(s, style) ==
    CASE style = "lower" -> Flatten([i \in 1..Len(s) |-> to_lowercase(s[i])])
      [] style = "upper" -> str_to_ascii_uppercase(s)
      [] style = "capital" -> [i \in 1..Len(s) |-> IF i = 1 THEN to_ascii_uppercase(s[i]) ELSE s[i]]
NumCalls ==
    UNION {{[fn |-> fn,
             in |-> [cls |-> "num", text |-> mag \o Cased(sc \o un, st) \o tail,
                     mag |-> mag, scale |-> sc, unit |-> un, tail |-> tail]] :
            mag \in Magnitudes, sc \in ScaleLetters, un \in {<<>>, UnitOf(fn)},
            st \in CaseStyles, tail \in NumTails} :
           fn \in NumberFns}

\* element lines whose designator is the type letter followed by a tail that
\* may be empty: "R a b 1k", "r1 a b 1k", "R_x a b 1k"
ElementLines == {l \in LetterLines : l.fn \in {"resistor", "capacitor", "inductor", "diode", "bjt", "mos_fet"}}
DesigTails(letter) == {<<>>, <<"1">>, <<"_","x">>, <<to_ascii_lowercase(letter), "1">>}
DesigCalls ==
    UNION {{[fn |-> l.fn,
             in |-> [cls |-> "desig",
                     text |-> JoinSp(<<<<c>> \o t>> \o Tail(l.fields)),
                     designator |-> <<c>> \o t]] :
            c \in {l.fields[1][1], to_ascii_lowercase(l.fields[1][1])}, t \in DesigTails(l.fields[1][1])} :
           l \in ElementLines}

\* .MEAS lines: a first word, an analysis and a name, then a form: its
\* keyword (none for a line without one) and what follows the keyword,
\* complete or not
MeasHeads == {
    [text |-> <<".","M","E","A","S"," ","T","R","A","N"," ","r","i","s","e","1"," ">>, meas |-> TRUE, name |-> <<"r","i","s","e","1">>, analysis |-> "Tran"],
    [text |-> <<".","m","e","a","s"," ","a","c"," ","x"," ">>, meas |-> TRUE, name |-> <<"x">>, analysis |-> "Ac"],
    [text |-> <<".","X","X","X"," ","T","R","A","N"," ","a","v","g","v","a","l"," ">>, meas |-> FALSE, name |-> <<"a","v","g","v","a","l">>, analysis |-> "Tran"] }
MeasForms ==
    {[kw |-> FunctionWords[i], rest |-> <<" ","V","(","n","1",")"," ","F","R","O","M","=","1","0","u"," ","T","O","=","5","5","u">>, complete |-> TRUE] :
        i \in 1..Len(FunctionWords)}
    \cup {
    [kw |-> <<"T","R","I","G">>, rest |-> <<" ","V","(","n","1",")"," ","V","A","L","=","0",".","2"," ","R","I","S","E","=","1"," ","T","A","R","G"," ","V","(","n","1",")"," ","V","A","L","=","0",".","8"," ","F","A","L","L","=","2">>, complete |-> TRUE],
    [kw |-> <<"T","R","I","G">>, rest |-> <<" ","V","(","1",")"," ","V","A","L","=",".","2"," ","R","I","S","E","=","1">>, complete |-> FALSE],
    [kw |-> <<"T","R","I","G">>, rest |-> <<" ","V","(","1",")"," ","R","I","S","E","=","1"," ","T","A","R","G"," ","V","(","1",")"," ","V","A","L","=",".","8"," ","R","I","S","E","=","1">>, complete |-> FALSE],
    [kw |-> <<"T","R","I","G">>, rest |-> <<>>, complete |-> FALSE],
    [kw |-> <<"A","V","G">>, rest |-> <<" ","V","(","1",")"," ","F","R","O","M","=","1">>, complete |-> FALSE],
    [kw |-> <<"R","M","S">>, rest |-> <<" ","V","(","1",")"," ","T","O","=","1">>, complete |-> FALSE],
    [kw |-> <<"P","P">>, rest |-> <<" ","F","R","O","M","=","0"," ","T","O","=","1">>, complete |-> FALSE],
    [kw |-> <<"F","I","N","D">>, rest |-> <<" ","I","(","V","m","e","a","s",")"," ","W","H","E","N"," ","V","(","n","1",")","=","1","V">>, complete |-> TRUE],
    [kw |-> <<"F","I","N","D">>, rest |-> <<" ","I","(","R","1",")"," ","W","H","E","N"," ","V","(","1",")"," ","=","="," ","1">>, complete |-> FALSE],
    [kw |-> <<"F","I","N","D">>, rest |-> <<" ","I","(","R","1",")"," ","W","H","E","N"," ","V","(","1",")">>, complete |-> FALSE],
    [kw |-> <<"F","I","N","D">>, rest |-> <<" ","I","(","R","1",")">>, complete |-> FALSE],
    [kw |-> <<>>, rest |-> <<"B","O","G","U","S"," ","V","(","1",")"," ","F","R","O","M","=","0"," ","T","O","=","1">>, complete |-> FALSE],
    [kw |-> <<>>, rest |-> <<"V","(","1",")"," ","F","R","O","M","=","0"," ","T","O","=","1">>, complete |-> FALSE],
    [kw |-> <<>>, rest |-> <<>>, complete |-> FALSE] }
MeasCalls ==
    {[fn |-> "measure_command",
      in |-> [cls |-> "meas", text |-> h.text \o Cased(f.kw, st) \o f.rest,
              meas |-> h.meas, name |-> h.name, analysis |-> h.analysis,
              kw |-> f.kw, complete |-> f.complete]] :
     h \in MeasHeads, f \in MeasForms, st \in {"lower", "upper"}}

\* output variables: V or I, and between the parentheses a stem followed by
\* an ending; suffix is what the ending stands for, "" when for nothing
VarStems == {<<"n","1">>, <<>>, <<"1",",","2">>, <<"V","m","e","a","s","_">>}
VarEndings == {
    [text |-> <<>>, suffix |-> ""], [text |-> <<"M">>, suffix |-> "Magnitude"],
    [text |-> <<"D","B">>, suffix |-> "Decibel"], [text |-> <<"P">>, suffix |-> "Phase"],
    [text |-> <<"R">>, suffix |-> "Real"], [text |-> <<"I">>, suffix |-> "Imag"],
    [text |-> <<"m">>, suffix |-> ""], [text |-> <<"d","b">>, suffix |-> ""],
    [text |-> <<"D","b">>, suffix |-> ""], [text |-> <<"p">>, suffix |-> ""],
    [text |-> <<"r">>, suffix |-> ""], [text |-> <<"i">>, suffix |-> ""],
    [text |-> <<"B">>, suffix |-> ""], [text |-> <<"D">>, suffix |-> ""],
    [text |-> <<"M","D","B">>, suffix |-> "Decibel"], [text |-> <<"D","B","M">>, suffix |-> "Magnitude"],
    [text |-> <<"P","I">>, suffix |-> "Imag"], [text |-> <<"I","R">>, suffix |-> "Real"],
    [text |-> <<"M"," ">>, suffix |-> ""], [text |-> <<"M",".">>, suffix |-> ""] }
VarCalls ==
    {[fn |-> "output_variable",
      in |-> [cls |-> "var", text |-> k \o <<"(">> \o stem \o e.text \o <<")">> \o tail,
              kind |-> k, var |-> stem \o e.text, suffix |-> e.suffix, tail |-> tail]] :
     k \in {<<"V">>, <<"v">>, <<"I">>, <<"i">>}, stem \in VarStems, e \in VarEndings, tail \in {<<>>, <<" ","=","1">>}}

\* source lines whose value is a magnitude and a phase, after AC, AC= or
\* nothing
AcKeywords == {<<>>, <<"A","C"," ">>, <<"a","c"," ">>, <<"A","C","=">>}
AcValues == {[mag |-> <<"1">>, phase |-> <<"9","0">>], [mag |-> <<"2",".","0">>, phase |-> <<"1","8","0">>]}
AcCalls ==
    {[fn |-> "source",
      in |-> [cls |-> "ac", text |-> name \o <<" ","i","n"," ","0"," ">> \o kw \o v.mag \o <<" ">> \o v.phase,
              name |-> name, keyword |-> kw, mag |-> v.mag, phase |-> v.phase]] :
     name \in {<<"V","1">>, <<"I","i","n">>}, kw \in AcKeywords, v \in AcValues}

\* lines for the two dispatchers: a first word that is an element letter,
\* a source letter, the instance letter, another letter or a dot-keyword,
\* whole or not, and the rest of a line of one of the kinds; the
\* alternatives are tried in every rotation of the order written, forwards
\* and backwards
AltHeads ==
    {<<"R","1">>, <<"r","1">>, <<"C","1">>, <<"c","1">>, <<"L","1">>, <<"D","1">>, <<"d","1">>, <<"Q","1">>, <<"M","1">>, <<"m","1">>, <<"V","1">>, <<"v","1">>, <<"I","1">>, <<"X","1">>, <<"x","1">>,
     <<"A","1">>, <<"_","1">>, <<"R","x">>, <<"M","O","D","E","L">>, <<"X","R">>, <<".","D","C">>, <<".","d","c">>, <<".","A","C">>, <<".","T","R","A","N">>, <<".","t","r","a","n">>, <<".","M","E","A","S">>, <<".","m","e","a","s">>,
     <<".","S","U","B","C","K","T">>, <<".","M","O","D","E","L">>, <<".","m","o","d","e","l">>, <<".","M">>, <<".","E","N","D">>, <<".">>, <<"D","C">>,
     <<".","S","U","B","C","U+212A","T">>}
AltTails ==
    {<<>>, <<" ","a"," ","b"," ","1","U+212A">>, <<" ","a"," ","b"," ","1","k">>, <<" ","a"," ","b">>, <<" ","a"," ","0"," ","D","C"," ","5">>, <<" ","a"," ","b"," ","c"," ","n","m">>, <<" ","a"," ","b"," ","c"," ","d"," ","n","m"," ","L","=","1","u"," ","W","=","2","u">>, <<" ","a"," ","b"," ","i","n","v">>,
     <<" ","V","1"," ","0"," ","5"," ","1">>, <<" ","D","E","C"," ","1","0"," ","1"," ","1","k">>, <<" ","1","n"," ","1","0","n">>, <<" ","T","R","A","N"," ","t"," ","F","I","N","D"," ","V","(","a",")"," ","W","H","E","N"," ","V","(","b",")","=","1">>, <<" ","s"," ","a","\n",".","E","N","D","S">>,
     <<" ","n","m"," ","N","M","O","S"," ","(","V","T","O","=","1",")">>, <<" ","n","m">>}
Rotations(n) == {[i \in 1..n |-> ((i + s - 1) % n) + 1] : s \in 0..(n - 1)}
Reversed(order) == [i \in 1..Len(order) |-> order[Len(order) + 1 - i]]
Orders(n) == Rotations(n) \cup {Reversed(o) : o \in Rotations(n)}
AltCalls ==
    {[fn |-> "statement", in |-> [cls |-> "alt", text |-> h \o t, order |-> o]] :
        h \in AltHeads, t \in AltTails, o \in Orders(Len(StatementAlts))}
    \cup {[fn |-> "component", in |-> [cls |-> "alt", text |-> h \o t, order |-> o]] :
        h \in AltHeads, t \in AltTails, o \in Orders(Len(ComponentAlts))}

\* calls on text with characters outside ASCII: the kelvin sign U+212A and
\* the ohm sign U+2126 where a scale or a unit is read, and U+212A in the
\* keyword of a .SUBCKT line
UnicodeCalls ==
    {[fn |-> c[1], in |-> [cls |-> "unicode", text |-> c[2]]] :
        c \in {<<"number", <<"1","U+212A">>>>, <<"time_number", <<"1","U+212A","s">>>>, <<"voltage_number", <<"1","U+212A">>>>,
               <<"current_number", <<"2","U+212A","A">>>>, <<"capacitance_number", <<"1","U+212A">>>>,
               <<"inductance_number", <<"1","U+212A","H">>>>, <<"resistance_number", <<"1","U+2126">>>>,
               <<"resistance_number", <<"1","U+212A">>>>, <<"resistance_number", <<"1","U+212A","OHM">>>>,
               <<"resistance_number", <<"1","k","ohm">>>>, <<"number", <<"1","U+0130">>>>,
               <<"capacitor", <<"C","1"," ","a"," ","b"," ","1","U+212A">>>>, <<"resistor", <<"R","1"," ","a"," ","b"," ","1","U+212A">>>>,
               <<"subckt", <<".","S","U","B","C","U+212A","T"," ","s"," ","a","\n",".","e","n","d","s">>>>,
               <<"source", <<"V","1"," ","a"," ","0"," ","D","C"," ","5","U+212A","v">>>>,
               <<"pwl_voltage", <<"P","W","L","(","0"," ","0"," ","1","U+212A","s"," ","5",")">>>>}}

ProdCalls ==
    UnicodeCalls \cup DamageCalls \cup ExampleCalls \cup ContCalls \cup SpaceCalls \cup SubcktCalls
    \cup InstCalls \cup MosCalls \cup PwlCalls \cup NumCalls \cup DesigCalls
    \cup MeasCalls \cup VarCalls \cup AcCalls \cup AltCalls

NotCalled == [tag |-> "None"]
NoRead ==
    /\ full_input = <<>> /\ input = <<>> /\ base_input = <<>> /\ stmts = <<>>
    /\ spice = SpiceDefault /\ result = [tag |-> "Idle"] /\ trace = <<>>

ProdInit ==
    /\ NoRead
    /\ \E c \in ProdCalls : p_fn = c.fn /\ p_in = c.in
    /\ p_out = NotCalled /\ p_back = NotCalled

\* what production fn returns on text
Apply(fn, text) ==
    CASE fn = "resistor" -> resistor(text)
      [] fn = "capacitor" -> capacitor(text)
      [] fn = "inductor" -> inductor(text)
      [] fn = "diode" -> diode(text)
      [] fn = "bjt" -> bjt(text)
      [] fn = "mos_fet" -> mos_fet(text)
      [] fn = "source" -> source(text)
      [] fn = "instance" -> instance(text)
      [] fn = "sim_command" -> sim_command(text)
      [] fn = "smart_space0" -> smart_space0(text)
      [] fn = "subckt" -> subckt(text)
      [] fn = "pwl_voltage" -> pwl_voltage(text)
      [] fn = "number" -> number(text)
      [] fn = "time_number" -> time_number(text)
      [] fn = "voltage_number" -> voltage_number(text)
      [] fn = "current_number" -> current_number(text)
      [] fn = "resistance_number" -> resistance_number(text)
      [] fn = "capacitance_number" -> capacitance_number(text)
      [] fn = "inductance_number" -> inductance_number(text)
      [] fn = "measure_command" -> measure_command(text)
      [] fn = "output_variable" -> output_variable(text)

\* a call returns r: the other variables stay
Returns(r) ==
    /\ p_out' = r
    /\ UNCHANGED <<full_input, input, spice, result, trace, base_input, stmts, p_in, p_fn, p_back>>

CallResistor ==
    /\ p_fn = "resistor" /\ p_out = NotCalled
    /\ Returns(resistor(p_in.text))

CallCapacitor ==
    /\ p_fn = "capacitor" /\ p_out = NotCalled
    /\ Returns(capacitor(p_in.text))

CallInductor ==
    /\ p_fn = "inductor" /\ p_out = NotCalled
    /\ Returns(inductor(p_in.text))

CallDiode ==
    /\ p_fn = "diode" /\ p_out = NotCalled
    /\ Returns(diode(p_in.text))

CallBjt ==
    /\ p_fn = "bjt" /\ p_out = NotCalled
    /\ Returns(bjt(p_in.text))

CallMosFet ==
    /\ p_fn = "mos_fet" /\ p_out = NotCalled
    /\ Returns(mos_fet(p_in.text))

CallSource ==
    /\ p_fn = "source" /\ p_out = NotCalled
    /\ Returns(source(p_in.text))

CallInstance ==
    /\ p_fn = "instance" /\ p_out = NotCalled
    /\ Returns(instance(p_in.text))

CallSimCommand ==
    /\ p_fn = "sim_command" /\ p_out = NotCalled
    /\ Returns(sim_command(p_in.text))

CallSmartSpace0 ==
    /\ p_fn = "smart_space0" /\ p_out = NotCalled
    /\ Returns(smart_space0(p_in.text))

CallSubckt ==
    /\ p_fn = "subckt" /\ p_out = NotCalled
    /\ Returns(subckt(p_in.text))

CallPwlVoltage ==
    /\ p_fn = "pwl_voltage" /\ p_out = NotCalled
    /\ Returns(pwl_voltage(p_in.text))

CallNumber ==
    /\ p_fn = "number" /\ p_out = NotCalled
    /\ Returns(number(p_in.text))

CallTimeNumber ==
    /\ p_fn = "time_number" /\ p_out = NotCalled
    /\ Returns(time_number(p_in.text))

CallVoltageNumber ==
    /\ p_fn = "voltage_number" /\ p_out = NotCalled
    /\ Returns(voltage_number(p_in.text))

CallCurrentNumber ==
    /\ p_fn = "current_number" /\ p_out = NotCalled
    /\ Returns(current_number(p_in.text))

CallResistanceNumber ==
    /\ p_fn = "resistance_number" /\ p_out = NotCalled
    /\ Returns(resistance_number(p_in.text))

CallCapacitanceNumber ==
    /\ p_fn = "capacitance_number" /\ p_out = NotCalled
    /\ Returns(capacitance_number(p_in.text))

CallInductanceNumber ==
    /\ p_fn = "inductance_number" /\ p_out = NotCalled
    /\ Returns(inductance_number(p_in.text))

CallMeasureCommand ==
    /\ p_fn = "measure_command" /\ p_out = NotCalled
    /\ Returns(measure_command(p_in.text))

CallOutputVariable ==
    /\ p_fn = "output_variable" /\ p_out = NotCalled
    /\ Returns(output_variable(p_in.text))

\* the dispatchers with their alternatives in the order p_in.order
CallStatementInOrder ==
    /\ p_fn = "statement" /\ p_in.cls = "alt" /\ p_out = NotCalled
    /\ Returns(statement_in_order(p_in.order, 1, p_in.text))

CallComponentInOrder ==
    /\ p_fn = "component" /\ p_in.cls = "alt" /\ p_out = NotCalled
    /\ Returns(component_in_order(p_in.order, 1, p_in.text))

\* ToSpice for Diode: format!("{} {} {} {}", name, node_pos, node_neg, model_name)
Diode_to_spice(d) == JoinSp(<<d.name, d.node_pos, d.node_neg, d.model_name>>)

\* ToSpice for BJT: format!("Q{} {} {} {} {}", name, collector, base, emitter, model_name)
BJT_to_spice(q) == JoinSp(<<<<"Q">> \o q.name, q.collector, q.base, q.emitter, q.model_name>>)

\* a result written back as text and read again
Back(text, again) == [tag |-> "Back", text |-> text, again |-> again]
ReadBack(b) ==
    /\ p_back' = b
    /\ UNCHANGED <<full_input, input, spice, result, trace, base_input, stmts, p_in, p_fn, p_out>>

\* the Diode that diode returned is serialized and the text is parsed again
RoundTripDiode ==
    /\ p_fn = "diode" /\ p_out.tag = "Ok" /\ p_back = NotCalled
    /\ ReadBack(Back(Diode_to_spice(p_out.val), diode(Diode_to_spice(p_out.val))))

\* the BJT that bjt returned is serialized and the text is parsed again
RoundTripBjt ==
    /\ p_fn = "bjt" /\ p_out.tag = "Ok" /\ p_back = NotCalled
    /\ ReadBack(Back(BJT_to_spice(p_out.val), bjt(BJT_to_spice(p_out.val))))

ProdNext ==
    \/ RoundTripDiode \/ RoundTripBjt \/ CallMeasureCommand
    \/ CallOutputVariable \/ CallStatementInOrder \/ CallComponentInOrder
    \/ CallResistor \/ CallCapacitor \/ CallInductor \/ CallDiode \/ CallBjt
    \/ CallMosFet \/ CallSource \/ CallInstance \/ CallSimCommand
    \/ CallSmartSpace0 \/ CallSubckt \/ CallPwlVoltage
    \/ CallNumber \/ CallTimeNumber \/ CallVoltageNumber \/ CallCurrentNumber
    \/ CallResistanceNumber \/ CallCapacitanceNumber \/ CallInductanceNumber

ProdSpec == ProdInit /\ [][ProdNext]_vars

(***************************************************************************)
(* The loops of the reader, one iteration per step.  The driver loop of    *)
(* read_spice runs on a netlist (Return, Push, Fatal, Unknown, Abort);     *)
(* each of the three inner loops runs on its own: p_fn names the function  *)
(* the loop is in, p_in.text is the input of the loop (p_in.start what it  *)
(* was entered with), p_in.acc what the loop has collected, p_in.steps the *)
(* number of iterations that went on, and p_out what the loop was left     *)
(* with.                                                                   *)
(***************************************************************************)
SkipAlphabet == {" ", "\n", "*", ";", "a"}
SkipTexts ==
    UNION {[1..n -> SkipAlphabet] : n \in 0..MaxSpaceLen}
    \cup {Styles[s].lead \o Styles[s].gap \o Styles[s].trail \o t :
            s \in 1..Len(Styles), t \in {<<>>, <<"\n","R","1"," ","a"," ","b"," ","1","k","\n","*"," ","c">>, <<"+"," ","x">>}}
LoopIn(start, acc) ==
    [cls |-> "loop", start |-> start, text |-> start, acc |-> acc, steps |-> 0]
LoopCalls ==
    {[fn |-> "skip_blank_or_comment_lines", in |-> LoopIn(t, <<>>)] : t \in SkipTexts}
    \cup {[fn |-> "subckt",
           in |-> LoopIn(Drop(c.in.text, Len(<<".","S","U","B","C","K","T"," ","s"," ","a"," ","b">>)),
                         [components |-> <<>>, instances |-> <<>>])] : c \in SubcktCalls}
    \cup {[fn |-> "pwl_voltage", in |-> LoopIn(Drop(c.in.text, Len(<<"P","W","L","(">>)), <<>>)] :
            c \in PwlCalls}

\* the netlists the driver loop runs on: those of the tests, and each
\* statement of StmtPool alone, and those with characters outside ASCII
LoopNetlists == Examples \cup NonAscii \cup {<<StmtPool[i]>> : i \in 1..Len(StmtPool)}

LoopInit ==
    \/ Init /\ stmts \in LoopNetlists
    \/ /\ NoRead
       /\ \E c \in LoopCalls : p_fn = c.fn /\ p_in = c.in
       /\ p_out = NotCalled /\ p_back = NotCalled

\* the loop goes on with a new state, or is left with a value
Iterated(it, value) ==
    /\ IF it.loop = "continue"
       THEN /\ p_in' = [p_in EXCEPT !.text = it.input, !.acc = it.acc, !.steps = @ + 1]
            /\ p_out' = p_out
       ELSE p_in' = p_in /\ p_out' = value
    /\ UNCHANGED <<full_input, input, spice, result, trace, base_input, stmts, p_fn, p_back>>

SkipIteration ==
    /\ p_fn = "skip_blank_or_comment_lines" /\ p_in.cls = "loop" /\ p_out = NotCalled
    /\ \E it \in {skip_iteration(p_in.text)} :
          Iterated(it, [tag |-> "Str", val |-> IF it.loop = "break" THEN it.out ELSE <<>>])

SubcktIteration ==
    /\ p_fn = "subckt" /\ p_in.cls = "loop" /\ p_out = NotCalled
    /\ \E it \in {subckt_iteration(p_in.text, p_in.acc)} :
          Iterated(it, IF it.loop = "break" THEN it.out ELSE NotCalled)

PwlIteration ==
    /\ p_fn = "pwl_voltage" /\ p_in.cls = "loop" /\ p_out = NotCalled
    /\ \E it \in {pwl_iteration(p_in.text, p_in.acc)} :
          Iterated(it, IF it.loop = "break" THEN it.out ELSE NotCalled)

LoopNext ==
    \/ Return \/ Push \/ Fatal \/ Unknown \/ Abort
    \/ SkipIteration \/ SubcktIteration \/ PwlIteration

LoopSpec == LoopInit /\ [][LoopNext]_vars

(***************************************************************************)
(* LEF primitives (rlef io/read/base.rs)                                   *)
(***************************************************************************)
\* nom's multispace0: spaces, tabs, carriage returns and line feeds
multispace0(in) == Ok(Drop(in, SpanLen(in, {" ", "\t", "\r", "\n"})), <<>>)

\* ws: delimited(multispace0, inner, multispace0)
ws(inner(_), in) ==
    Val([r \in {inner(multispace0(in).rest)} |-> IF r.tag # "Ok" THEN r ELSE
        Ok(multispace0(r.rest).rest, r.val)])

\* ws(tag(t))
ws_tag(t, in) ==
    Val([r \in {tag(t, multispace0(in).rest)} |-> IF r.tag # "Ok" THEN r ELSE
        Ok(multispace0(r.rest).rest, r.val)])

\* recognize(pair(alt((alpha1, tag("_"))), many0(alt((alphanumeric1, tag("_"))))))
lef_identifier_inner(in) ==
    Val([a \in {SpanLen(in, Alpha)} |->
    Val([first \in {IF a > 0 THEN a ELSE IF starts_with(in, <<"_">>) THEN 1 ELSE 0} |->
        IF first = 0 THEN Error(in, "Tag")
        ELSE Val([n \in {first + SpanLen(Drop(in, first), Alnum \cup {"_"})} |->
                 Ok(Drop(in, n), Take(in, n))])])])
lef_identifier(in) == ws(lef_identifier_inner, in)

\* delimited(char('"'), is_not("\""), char('"')): is_not takes one character at least
qstring_inner(in) ==
    IF ~starts_with(in, <<"\"">>) THEN Error(in, "Char")
    ELSE Val([n \in {SpanUntil(Drop(in, 1), {"\""})} |->
             IF n = 0 THEN Error(Drop(in, 1), "IsNot")
             ELSE IF n + 1 >= Len(in) THEN Error(<<>>, "Char")
             ELSE Ok(Drop(in, n + 2), SubSeq(in, 2, n + 1))])
qstring(in) == ws(qstring_inner, in)

\* map_res(recognize(digit1), u32::from_str)
lef_unsigned_int_inner(in) ==
    Val([n \in {SpanLen(in, Digit)} |->
    Val([v \in {u32_from_str(Take(in, n))} |->
        IF n = 0 THEN Error(in, "Digit")
        ELSE IF ~v.some THEN Error(in, "MapRes")
        ELSE Ok(Drop(in, n), v.v)])])
lef_unsigned_int(in) == ws(lef_unsigned_int_inner, in)

\* decimal: many1(terminated(one_of("0123456789"), many0(char('_')))), the
\* length recognized
lef_decimal_len(in) ==
    IF Len(in) > 0 /\ in[1] \in Digit THEN SpanLen(in, Digit \cup {"_"}) ELSE 0

\* the text recognized by the alt of float: its length, 0 when no case matches
lef_float_len(in) ==
    Val([sign \in {IF Len(in) > 0 /\ in[1] = "-" THEN 1 ELSE 0} |->
    Val([d1 \in {lef_decimal_len(Drop(in, sign))} |->
    Val([afterInt \in {Drop(in, sign + d1)} |->
        IF d1 = 0 THEN 0
        \* Case one: 42. and 42.42
        ELSE IF Len(afterInt) > 0 /\ afterInt[1] = "."
             THEN sign + d1 + 1 + lef_decimal_len(Drop(afterInt, 1))
        \* case two: integer as float number
        ELSE sign + d1])])])

\* a conversion that drops the underscores before it parses
f64_from_str_lenient(txt) == f64_from_str(SelectSeq(txt, LAMBDA c : c # "_"))

\* |res: &str| f64::from_str(res)
lef_f64_from_str(txt) == f64_from_str(txt)

\* map_res(alt((..)), f64::from_str).  When no case matches, the error is
\* the one of the last case: that of one_of in decimal, on the text after
\* the optional "-"
lef_float_inner(in) ==
    Val([n \in {lef_float_len(in)} |->
    Val([v \in {lef_f64_from_str(Take(in, n))} |->
        IF n = 0
        THEN Error(IF Len(in) > 0 /\ in[1] = "-" THEN Drop(in, 1) ELSE in, "OneOf")
        ELSE IF ~v.some THEN Error(in, "MapRes")
        ELSE Ok(Drop(in, n), v.v)])])
lef_float(in) == ws(lef_float_inner, in)
ws_float(in) == ws(lef_float, in)
ws_identifier(in) == ws(lef_identifier, in)
ws_unsigned_int(in) == ws(lef_unsigned_int, in)
ws_qstring(in) == ws(qstring, in)

(***************************************************************************)
(* LEF technology library (reda-lef io/read/mod.rs)                        *)
(***************************************************************************)
\* tuple((ws(tag("MASK")), ws(unsigned_int), ws(tag(";")))): the mask number
mask_clause(in) ==
    Val([k \in {ws_tag(<<"M","A","S","K">>, in)} |-> IF k.tag # "Ok" THEN k ELSE
    Val([n \in {ws_unsigned_int(k.rest)} |-> IF n.tag # "Ok" THEN n ELSE
    Val([s \in {ws_tag(<<";">>, n.rest)} |-> IF s.tag # "Ok" THEN s ELSE
        Ok(s.rest, n.val)])])])

\* tuple((ws(tag(kw)), ws(float), ws(tag(";")))): the number
float_clause(kw, in) ==
    Val([k \in {ws_tag(kw, in)} |-> IF k.tag # "Ok" THEN k ELSE
    Val([n \in {ws_float(k.rest)} |-> IF n.tag # "Ok" THEN n ELSE
    Val([s \in {ws_tag(<<";">>, n.rest)} |-> IF s.tag # "Ok" THEN s ELSE
        Ok(s.rest, n.val)])])])

\* the four alternatives of the constraint of a cut spacing
constraint_layer(in) ==
    Val([k \in {ws_tag(<<"L","A","Y","E","R">>, in)} |-> IF k.tag # "Ok" THEN k ELSE
    Val([n \in {ws_identifier(k.rest)} |-> IF n.tag # "Ok" THEN n ELSE
    Val([st \in {opt(ws_tag(<<"S","T","A","C","K">>, n.rest), n.rest)} |-> IF st.tag # "Ok" THEN st ELSE
        Ok(st.rest, [kind |-> "Layer", name |-> n.val, stack |-> st.val.some])])])])

\* an ADJACENTCUTS alternative that stores the count as it is written
constraint_adjacent_cuts_wide(in) ==
    Val([k \in {ws_tag(<<"A","D","J","A","C","E","N","T","C","U","T","S">>, in)} |-> IF k.tag # "Ok" THEN k ELSE
    Val([c \in {ws_unsigned_int(k.rest)} |-> IF c.tag # "Ok" THEN c ELSE
    Val([w \in {ws_tag(<<"W","I","T","H","I","N">>, c.rest)} |-> IF w.tag # "Ok" THEN w ELSE
    Val([f \in {ws_float(w.rest)} |-> IF f.tag # "Ok" THEN f ELSE
    Val([ex \in {opt(ws_tag(<<"E","X","C","E","P","T","S","A","M","E","P","G","N","E","T">>, f.rest), f.rest)} |-> IF ex.tag # "Ok" THEN ex ELSE
        Ok(ex.rest, [kind |-> "AdjacentCuts", count |-> c.val, within |-> f.val,
                     except_same_pg_net |-> ex.val.some])])])])])])

constraint_adjacent_cuts(in) ==
    Val([k \in {ws_tag(<<"A","D","J","A","C","E","N","T","C","U","T","S">>, in)} |-> IF k.tag # "Ok" THEN k ELSE
    Val([c \in {ws_unsigned_int(k.rest)} |-> IF c.tag # "Ok" THEN c ELSE
    Val([w \in {ws_tag(<<"W","I","T","H","I","N">>, c.rest)} |-> IF w.tag # "Ok" THEN w ELSE
    Val([f \in {ws_float(w.rest)} |-> IF f.tag # "Ok" THEN f ELSE
    Val([ex \in {opt(ws_tag(<<"E","X","C","E","P","T","S","A","M","E","P","G","N","E","T">>, f.rest), f.rest)} |-> IF ex.tag # "Ok" THEN ex ELSE
        \* count as u8
        Ok(ex.rest, [kind |-> "AdjacentCuts", count |-> c.val % 256, within |-> f.val,
                     except_same_pg_net |-> ex.val.some])])])])])])

constraint_parallel_overlap(in) ==
    Val([k \in {ws_tag(<<"P","A","R","A","L","L","E","L","O","V","E","R","L","A","P">>, in)} |-> IF k.tag # "Ok" THEN k ELSE
        Ok(k.rest, [kind |-> "ParallelOverlap"])])

constraint_area(in) ==
    Val([k \in {ws_tag(<<"A","R","E","A">>, in)} |-> IF k.tag # "Ok" THEN k ELSE
    Val([f \in {ws_float(k.rest)} |-> IF f.tag # "Ok" THEN f ELSE
        Ok(f.rest, [kind |-> "Area", area |-> f.val])])])

\* alt over the four, in the order written
cut_spacing_constraint(in) ==
    Val([a \in {constraint_layer(in)} |-> IF a.tag # "Error" THEN a ELSE
    Val([b \in {constraint_adjacent_cuts(in)} |-> IF b.tag # "Error" THEN b ELSE
    Val([c \in {constraint_parallel_overlap(in)} |-> IF c.tag # "Error" THEN c ELSE
        constraint_area(in)])])])

cut_layer_spacing(in) ==
    Val([k \in {ws_tag(<<"S","P","A","C","I","N","G">>, in)} |-> IF k.tag # "Ok" THEN k ELSE
    Val([sp \in {ws_float(k.rest)} |-> IF sp.tag # "Ok" THEN sp ELSE
    Val([cc \in {opt(ws_tag(<<"C","E","N","T","E","R","T","O","C","E","N","T","E","R">>, sp.rest), sp.rest)} |-> IF cc.tag # "Ok" THEN cc ELSE
    Val([sn \in {opt(ws_tag(<<"S","A","M","E","N","E","T">>, cc.rest), cc.rest)} |-> IF sn.tag # "Ok" THEN sn ELSE
    Val([co \in {opt(cut_spacing_constraint(sn.rest), sn.rest)} |-> IF co.tag # "Ok" THEN co ELSE
    Val([s \in {ws_tag(<<";">>, co.rest)} |-> IF s.tag # "Ok" THEN s ELSE
        Ok(s.rest, [cut_spacing |-> sp.val, center_to_center |-> cc.val.some,
                    same_net |-> sn.val.some, constraint |-> co.val])])])])])])])
ws_cut_layer_spacing(in) == ws(cut_layer_spacing, in)

\* opt(alt((tag("ABOVE"), tag("BELOW")))): above unless BELOW is written
enclosure_side(in) ==
    Val([a \in {tag(<<"A","B","O","V","E">>, in)} |-> IF a.tag # "Error" THEN a ELSE tag(<<"B","E","L","O","W">>, in)])

condition_width(in) ==
    Val([k \in {ws_tag(<<"W","I","D","T","H">>, in)} |-> IF k.tag # "Ok" THEN k ELSE
    Val([w \in {ws_float(k.rest)} |-> IF w.tag # "Ok" THEN w ELSE
    Val([ek \in {ws_tag(<<"E","X","C","E","P","T","E","X","T","R","A","C","U","T">>, w.rest)} |->
    Val([ex \in {IF ek.tag # "Ok" THEN ek ELSE ws_float(ek.rest)} |->
    Val([o \in {opt(ex, w.rest)} |-> IF o.tag # "Ok" THEN o ELSE
        Ok(o.rest, [kind |-> "Width", min_width |-> w.val,
                    except_extra_cut |-> o.val])])])])])])

condition_length(in) ==
    Val([k \in {ws_tag(<<"L","E","N","G","T","H">>, in)} |-> IF k.tag # "Ok" THEN k ELSE
    Val([f \in {ws_float(k.rest)} |-> IF f.tag # "Ok" THEN f ELSE
        Ok(f.rest, [kind |-> "Length", len |-> f.val])])])

enclosure_condition(in) ==
    Val([a \in {condition_width(in)} |-> IF a.tag # "Error" THEN a ELSE condition_length(in)])

cut_layer_enclosure(in) ==
    Val([k \in {ws_tag(<<"E","N","C","L","O","S","U","R","E">>, in)} |-> IF k.tag # "Ok" THEN k ELSE
    Val([ab \in {opt(enclosure_side(k.rest), k.rest)} |-> IF ab.tag # "Ok" THEN ab ELSE
    Val([o1 \in {ws_float(ab.rest)} |-> IF o1.tag # "Ok" THEN o1 ELSE
    Val([o2 \in {ws_float(o1.rest)} |-> IF o2.tag # "Ok" THEN o2 ELSE
    Val([co \in {opt(enclosure_condition(o2.rest), o2.rest)} |-> IF co.tag # "Ok" THEN co ELSE
    Val([s \in {ws_tag(<<";">>, co.rest)} |-> IF s.tag # "Ok" THEN s ELSE
        Ok(s.rest, [above |-> ~(ab.val.some /\ ab.val.v = <<"B","E","L","O","W">>),
                    overhang1 |-> o1.val, overhang2 |-> o2.val,
                    condition |-> co.val])])])])])])])
ws_cut_layer_enclosure(in) == ws(cut_layer_enclosure, in)

\* an end of block that takes any name
layer_end_any(in, name, built) ==
    Val([k \in {ws_tag(<<"E","N","D">>, in)} |-> IF k.tag # "Ok" THEN k ELSE
    Val([en \in {ws_identifier(k.rest)} |-> IF en.tag # "Ok" THEN en ELSE
        Ok(en.rest, built)])])

\* the end of every layer block: END and a name, which must be the name of the
\* block; the layer is built only then
layer_end(in, name, built) ==
    Val([k \in {ws_tag(<<"E","N","D">>, in)} |-> IF k.tag # "Ok" THEN k ELSE
    Val([en \in {ws_identifier(k.rest)} |-> IF en.tag # "Ok" THEN en ELSE
        IF name = en.val THEN Ok(en.rest, built)
        ELSE Failure(en.val, "un match end name")])])

cut_layer(in, name) ==
    Val([m \in {opt(mask_clause(in), in)} |-> IF m.tag # "Ok" THEN m ELSE
    Val([sp \in {many0(ws_cut_layer_spacing, m.rest)} |-> IF sp.tag # "Ok" THEN sp ELSE
    Val([w \in {opt(float_clause(<<"W","I","D","T","H">>, sp.rest), sp.rest)} |-> IF w.tag # "Ok" THEN w ELSE
    Val([en \in {many0(ws_cut_layer_enclosure, w.rest)} |-> IF en.tag # "Ok" THEN en ELSE
        layer_end(en.rest, name,
                  [name |-> name, mask |-> m.val, width |-> w.val,
                   spacing |-> sp.val, enclosures |-> en.val])])])])])

\* [SPACING minSpacing [LAYER layerName2] ;]
implant_layer_spacing(in) ==
    Val([k \in {ws_tag(<<"S","P","A","C","I","N","G">>, in)} |-> IF k.tag # "Ok" THEN k ELSE
    Val([sp \in {ws_float(k.rest)} |-> IF sp.tag # "Ok" THEN sp ELSE
    Val([lk \in {ws_tag(<<"L","A","Y","E","R">>, sp.rest)} |->
    Val([ln \in {IF lk.tag # "Ok" THEN lk ELSE ws_identifier(lk.rest)} |->
    Val([o \in {opt(ln, sp.rest)} |-> IF o.tag # "Ok" THEN o ELSE
    Val([s \in {ws_tag(<<";">>, o.rest)} |-> IF s.tag # "Ok" THEN s ELSE
        Ok(s.rest, [min_spacing |-> sp.val, layer |-> o.val])])])])])])])
ws_implant_layer_spacing(in) == ws(implant_layer_spacing, in)

\* the property clause of an implant layer: its first tag is SPACING
implant_layer_property(in) ==
    Val([k \in {ws_tag(<<"S","P","A","C","I","N","G">>, in)} |-> IF k.tag # "Ok" THEN k ELSE
    Val([pn \in {ws_identifier(k.rest)} |-> IF pn.tag # "Ok" THEN pn ELSE
    Val([pv \in {ws_identifier(pn.rest)} |-> IF pv.tag # "Ok" THEN pv ELSE
    Val([s \in {ws_tag(<<";">>, pv.rest)} |-> IF s.tag # "Ok" THEN s ELSE
        Ok(s.rest, <<pn.val, pv.val>>)])])])])
ws_implant_layer_property(in) == ws(implant_layer_property, in)

implant_layer(in, name) ==
    Val([m \in {opt(mask_clause(in), in)} |-> IF m.tag # "Ok" THEN m ELSE
    Val([w \in {opt(float_clause(<<"W","I","D","T","H">>, m.rest), m.rest)} |-> IF w.tag # "Ok" THEN w ELSE
    Val([sp \in {many0(ws_implant_layer_spacing, w.rest)} |-> IF sp.tag # "Ok" THEN sp ELSE
    Val([pr \in {many0(ws_implant_layer_property, sp.rest)} |-> IF pr.tag # "Ok" THEN pr ELSE
        layer_end(pr.rest, name,
                  [name |-> name, mask |-> m.val, width |-> w.val,
                   spacings |-> sp.val, properties |-> pr.val])])])])])

\* alt over the four directions, in the order written
DirectionRows == << <<<<"H","O","R","I","Z","O","N","T","A","L">>, "Horizontal">>, <<<<"V","E","R","T","I","C","A","L">>, "Vertical">>,
                    <<<<"D","I","A","G","4","5">>, "Diag45">>, <<<<"D","I","A","G","1","3","5">>, "Diag135">> >>
routing_direction(in) ==
    Val([hits \in {{i \in 1..Len(DirectionRows) : ws_tag(DirectionRows[i][1], in).tag = "Ok"}} |->
        IF hits = {} THEN Error(multispace0(in).rest, "Tag")
        ELSE Ok(ws_tag(DirectionRows[Min(hits)][1], in).rest, DirectionRows[Min(hits)][2])])

parse_spacing(in) ==
    Val([k \in {ws_tag(<<"S","P","A","C","I","N","G">>, in)} |-> IF k.tag # "Ok" THEN k ELSE
    Val([sp \in {ws_float(k.rest)} |-> IF sp.tag # "Ok" THEN sp ELSE
    Val([s \in {ws_tag(<<";">>, sp.rest)} |-> IF s.tag # "Ok" THEN s ELSE
        Ok(s.rest, [min_spacing |-> sp.val])])])])
ws_parse_spacing(in) == ws(parse_spacing, in)

\* PITCH {distance | xDistance yDistance} ;
routing_pitch(in) ==
    Val([k \in {ws_tag(<<"P","I","T","C","H">>, in)} |-> IF k.tag # "Ok" THEN k ELSE
    Val([p1 \in {ws_float(k.rest)} |-> IF p1.tag # "Ok" THEN p1 ELSE
    Val([p2 \in {opt(ws_float(p1.rest), p1.rest)} |-> IF p2.tag # "Ok" THEN p2 ELSE
    Val([s \in {ws_tag(<<";">>, p2.rest)} |-> IF s.tag # "Ok" THEN s ELSE
        Ok(s.rest, IF p2.val.some THEN <<"XY", p1.val, p2.val.v>> ELSE <<"Uniform", p1.val>>)])])])])

\* a ROUTING grammar whose WIDTH clause is optional: used to show that the
\* three clauses are mandatory
routing_layer_width_optional(in, name) ==
    Val([m \in {opt(mask_clause(in), in)} |-> IF m.tag # "Ok" THEN m ELSE
    Val([dk \in {ws_tag(<<"D","I","R","E","C","T","I","O","N">>, m.rest)} |-> IF dk.tag # "Ok" THEN dk ELSE
    Val([d \in {routing_direction(dk.rest)} |-> IF d.tag # "Ok" THEN d ELSE
    Val([ds \in {ws_tag(<<";">>, d.rest)} |-> IF ds.tag # "Ok" THEN ds ELSE
    Val([p \in {routing_pitch(ds.rest)} |-> IF p.tag # "Ok" THEN p ELSE
    Val([w \in {opt(float_clause(<<"W","I","D","T","H">>, p.rest), p.rest)} |-> IF w.tag # "Ok" THEN w ELSE
    Val([a \in {opt(float_clause(<<"A","R","E","A">>, w.rest), w.rest)} |-> IF a.tag # "Ok" THEN a ELSE
    Val([sp \in {many0(ws_parse_spacing, a.rest)} |-> IF sp.tag # "Ok" THEN sp ELSE
    Val([mx \in {opt(float_clause(<<"M","A","X","W","I","D","T","H">>, sp.rest), sp.rest)} |-> IF mx.tag # "Ok" THEN mx ELSE
    Val([mn \in {opt(float_clause(<<"M","I","N","W","I","D","T","H">>, mx.rest), mx.rest)} |-> IF mn.tag # "Ok" THEN mn ELSE
        layer_end(mn.rest, name,
                  [name |-> name, mask |-> m.val, direction |-> d.val, pitch |-> p.val,
                   width |-> w.val, area |-> a.val, spacing_rules |-> sp.val,
                   max_width |-> mx.val, min_width |-> mn.val])])])])])])])])])])])

routing_layer(in, name) ==
    Val([m \in {opt(mask_clause(in), in)} |-> IF m.tag # "Ok" THEN m ELSE
    Val([dk \in {ws_tag(<<"D","I","R","E","C","T","I","O","N">>, m.rest)} |-> IF dk.tag # "Ok" THEN dk ELSE
    Val([d \in {routing_direction(dk.rest)} |-> IF d.tag # "Ok" THEN d ELSE
    Val([ds \in {ws_tag(<<";">>, d.rest)} |-> IF ds.tag # "Ok" THEN ds ELSE
    Val([p \in {routing_pitch(ds.rest)} |-> IF p.tag # "Ok" THEN p ELSE
    Val([w \in {float_clause(<<"W","I","D","T","H">>, p.rest)} |-> IF w.tag # "Ok" THEN w ELSE
    Val([a \in {opt(float_clause(<<"A","R","E","A">>, w.rest), w.rest)} |-> IF a.tag # "Ok" THEN a ELSE
    Val([sp \in {many0(ws_parse_spacing, a.rest)} |-> IF sp.tag # "Ok" THEN sp ELSE
    Val([mx \in {opt(float_clause(<<"M","A","X","W","I","D","T","H">>, sp.rest), sp.rest)} |-> IF mx.tag # "Ok" THEN mx ELSE
    Val([mn \in {opt(float_clause(<<"M","I","N","W","I","D","T","H">>, mx.rest), mx.rest)} |-> IF mn.tag # "Ok" THEN mn ELSE
        layer_end(mn.rest, name,
                  [name |-> name, mask |-> m.val, direction |-> d.val, pitch |-> p.val,
                   width |-> w.val, area |-> a.val, spacing_rules |-> sp.val,
                   max_width |-> mx.val, min_width |-> mn.val])])])])])])])])])])])

\* the value of PROPERTY LEF58_TRIMMEDMETAL: "TRIMMEDMETAL metalLayer [MASK maskNum]"
special_layer_trimmedmetal_value(in) ==
    Val([k \in {ws_tag(<<"T","R","I","M","M","E","D","M","E","T","A","L">>, in)} |-> IF k.tag # "Ok" THEN k ELSE
    Val([ml \in {ws_identifier(k.rest)} |-> IF ml.tag # "Ok" THEN ml ELSE
    Val([mk \in {ws_tag(<<"M","A","S","K">>, ml.rest)} |->
    Val([mv \in {IF mk.tag # "Ok" THEN mk ELSE ws_unsigned_int(mk.rest)} |->
    Val([o \in {opt(mv, ml.rest)} |-> IF o.tag # "Ok" THEN o ELSE
        Ok(o.rest, [metal_layer |-> ml.val, mask |-> o.val])])])])])])

\* tuple((ws(tag("PROPERTY")), ws(identifier), ws(qstring), ws(tag(";")))): key and value
property_clause(in) ==
    Val([k \in {ws_tag(<<"P","R","O","P","E","R","T","Y">>, in)} |-> IF k.tag # "Ok" THEN k ELSE
    Val([pn \in {ws_identifier(k.rest)} |-> IF pn.tag # "Ok" THEN pn ELSE
    Val([pv \in {ws_qstring(pn.rest)} |-> IF pv.tag # "Ok" THEN pv ELSE
    Val([s \in {ws_tag(<<";">>, pv.rest)} |-> IF s.tag # "Ok" THEN s ELSE
        Ok(s.rest, <<pn.val, pv.val>>)])])])])

\* the match on the upper-cased value of LEF58_TYPE
Lef58TypeRows == << <<<<"T","Y","P","E"," ","N","W","E","L","L">>, "NWell">>, <<<<"T","Y","P","E"," ","P","W","E","L","L">>, "PWell">>,
                    <<<<"T","Y","P","E"," ","A","B","O","V","E","D","I","E","E","D","G","E">>, "AboveDieEdge">>, <<<<"T","Y","P","E"," ","B","E","L","O","W","D","I","E","E","D","G","E">>, "BelowDieEdge">>,
                    <<<<"T","Y","P","E"," ","D","I","F","F","U","S","I","O","N">>, "Diffusion">>, <<<<"T","Y","P","E"," ","T","R","I","M","P","O","L","Y">>, "TrimPoly">>,
                    <<<<"T","Y","P","E"," ","T","R","I","M","M","E","T","A","L">>, "TrimMetal">>, <<<<"T","Y","P","E"," ","R","E","G","I","O","N">>, "Region">> >>
lef58_type_of(val) ==
    Val([hits \in {{i \in 1..Len(Lef58TypeRows) : Lef58TypeRows[i][1] = str_to_ascii_uppercase(val)}} |->
        IF hits = {} THEN None ELSE Some(Lef58TypeRows[Min(hits)][2])])

\* a loop that takes nothing out
is_no_key(key) == FALSE

\* the keys the loop of special_layer takes out of the properties
is_lef58_type(key) == key = <<"L","E","F","5","8","_","T","Y","P","E">>
is_lef58_trimmedmetal(key) == key = <<"L","E","F","5","8","_","T","R","I","M","M","E","D","M","E","T","A","L">>

\* the for loop of special_layer over the clauses: the builder after it, or
\* the abort by unwrap() at the first LEF58_TRIMMEDMETAL value that does not
\* parse, which reports the Err of the parser (where in the value it stopped)
special_layer_props(props, name, tp, mask) ==
    Val([ty \in {{i \in 1..Len(props) : is_lef58_type(props[i][1]) /\ lef58_type_of(props[i][2]).some}} |->
    Val([tm \in {{i \in 1..Len(props) : ~is_lef58_type(props[i][1]) /\ is_lef58_trimmedmetal(props[i][1])}} |->
    Val([bad \in {{i \in tm : special_layer_trimmedmetal_value(props[i][2]).tag # "Ok"}} |->
        IF bad # {}
        THEN Panic(special_layer_trimmedmetal_value(props[Min(bad)][2]).at,
                   "unwrap on an Err value")
        ELSE Ok(<<>>,
                [name |-> name, layer_type |-> tp, mask |-> mask,
                 properties |-> SelectSeq(props, LAMBDA kv :
                     ~is_lef58_type(kv[1]) /\ ~is_lef58_trimmedmetal(kv[1])),
                 lef58_type |-> IF ty = {} THEN None ELSE lef58_type_of(props[Max(ty)][2]),
                 lef58_trimmed_metal |->
                     IF tm = {} THEN None
                     ELSE Some(special_layer_trimmedmetal_value(props[Max(tm)][2]).val)])])])])

special_layer(in, name, tp) ==
    Val([m \in {opt(mask_clause(in), in)} |-> IF m.tag # "Ok" THEN m ELSE
    Val([pr \in {many0(property_clause, m.rest)} |-> IF pr.tag # "Ok" THEN pr ELSE
    Val([b \in {special_layer_props(pr.val, name, tp, m.val)} |-> IF b.tag # "Ok" THEN b ELSE
        layer_end(pr.rest, name, b.val)])])])

layer(in) ==
    Val([k \in {ws_tag(<<"L","A","Y","E","R">>, in)} |-> IF k.tag # "Ok" THEN k ELSE
    Val([n \in {ws_identifier(k.rest)} |-> IF n.tag # "Ok" THEN n ELSE
    Val([tk \in {ws_tag(<<"T","Y","P","E">>, n.rest)} |-> IF tk.tag # "Ok" THEN tk ELSE
    Val([ty \in {ws_identifier(tk.rest)} |-> IF ty.tag # "Ok" THEN ty ELSE
    Val([s \in {ws_tag(<<";">>, ty.rest)} |-> IF s.tag # "Ok" THEN s ELSE
        IF ty.val = <<"C","U","T">> THEN
            Val([l \in {cut_layer(s.rest, n.val)} |-> IF l.tag # "Ok" THEN l ELSE
                Ok(l.rest, [kind |-> "Cut", l |-> l.val])])
        ELSE IF ty.val = <<"I","M","P","L","A","N","T">> THEN
            Val([l \in {implant_layer(s.rest, n.val)} |-> IF l.tag # "Ok" THEN l ELSE
                Ok(l.rest, [kind |-> "Implant", l |-> l.val])])
        ELSE IF ty.val = <<"R","O","U","T","I","N","G">> THEN
            Val([l \in {routing_layer(s.rest, n.val)} |-> IF l.tag # "Ok" THEN l ELSE
                Ok(l.rest, [kind |-> "Routing", l |-> l.val])])
        ELSE IF ty.val = <<"M","A","S","T","E","R","S","L","I","C","E">> THEN
            Val([l \in {special_layer(s.rest, n.val, "MasterSlice")} |-> IF l.tag # "Ok" THEN l ELSE
                Ok(l.rest, [kind |-> "Special", l |-> l.val])])
        ELSE IF ty.val = <<"O","V","E","R","L","A","P">> THEN
            Val([l \in {special_layer(s.rest, n.val, "Overlap")} |-> IF l.tag # "Ok" THEN l ELSE
                Ok(l.rest, [kind |-> "Special", l |-> l.val])])
        ELSE Failure(ty.val, "expected layer type")])])])])])
ws_layer(in) == ws(layer, in)

\* delimited(ws(tag("VERSION")), float, ws(tag(";")))
version(in) ==
    Val([k \in {ws_tag(<<"V","E","R","S","I","O","N">>, in)} |-> IF k.tag # "Ok" THEN k ELSE
    Val([f \in {lef_float(k.rest)} |-> IF f.tag # "Ok" THEN f ELSE
    Val([s \in {ws_tag(<<";">>, f.rest)} |-> IF s.tag # "Ok" THEN s ELSE
        Ok(s.rest, f.val)])])])

\* alt over quoted delimiters, in the order written
quoted_alt(alts, in) ==
    Val([hits \in {{i \in 1..Len(alts) : ws_tag(alts[i], in).tag = "Ok"}} |->
        IF hits = {} THEN Error(multispace0(in).rest, "Tag")
        ELSE ws_tag(alts[Min(hits)], in)])

BusbitAlts == <<<<"\"","[","]","\"">>, <<"\"","{","}","\"">>, <<"\"","<",">","\"">>>>
busbit_chars(in) ==
    Val([k \in {ws_tag(<<"B","U","S","B","I","T","C","H","A","R","S">>, in)} |-> IF k.tag # "Ok" THEN k ELSE
    Val([c \in {quoted_alt(BusbitAlts, k.rest)} |-> IF c.tag # "Ok" THEN c ELSE
    Val([s \in {ws_tag(<<";">>, c.rest)} |-> IF s.tag # "Ok" THEN s ELSE
        Ok(s.rest, c.val)])])])

DividerAlts == <<<<"\"","/","\"">>, <<"\"", "\\", "\"">>, <<"\"","%","\"">>, <<"\"","$","\"">>>>
divider_char(in) ==
    Val([k \in {ws_tag(<<"D","I","V","I","D","E","R","C","H","A","R">>, in)} |-> IF k.tag # "Ok" THEN k ELSE
    Val([c \in {quoted_alt(DividerAlts, k.rest)} |-> IF c.tag # "Ok" THEN c ELSE
    Val([s \in {ws_tag(<<";">>, c.rest)} |-> IF s.tag # "Ok" THEN s ELSE
        Ok(s.rest, c.val)])])])

\* UNITS DATABASE MICRONS n ; END UNITS
units(in) ==
    Val([k \in {ws_tag(<<"U","N","I","T","S">>, in)} |-> IF k.tag # "Ok" THEN k ELSE
    Val([d \in {ws_tag(<<"D","A","T","A","B","A","S","E">>, k.rest)} |-> IF d.tag # "Ok" THEN d ELSE
    Val([m \in {ws_tag(<<"M","I","C","R","O","N","S">>, d.rest)} |-> IF m.tag # "Ok" THEN m ELSE
    Val([v \in {ws_unsigned_int(m.rest)} |-> IF v.tag # "Ok" THEN v ELSE
    Val([s \in {ws_tag(<<";">>, v.rest)} |-> IF s.tag # "Ok" THEN s ELSE
    Val([e \in {ws_tag(<<"E","N","D">>, s.rest)} |-> IF e.tag # "Ok" THEN e ELSE
    Val([u \in {ws_tag(<<"U","N","I","T","S">>, e.rest)} |-> IF u.tag # "Ok" THEN u ELSE
        Ok(u.rest, [database_microns |-> Some(v.val)])])])])])])])])

\* opt(tuple((ws(tag("USEMINSPACING")), ws(identifier), ws(tag(";"))))) and the
\* match on the identifier: OFF is read as On, as ON is
\* a reading of USEMINSPACING that tells OFF from ON: used to show that the
\* reader does not
use_min_spacing_on_off(in) ==
    Val([k \in {ws_tag(<<"U","S","E","M","I","N","S","P","A","C","I","N","G">>, in)} |->
    Val([id \in {IF k.tag # "Ok" THEN k ELSE ws_identifier(k.rest)} |->
    Val([s \in {IF id.tag # "Ok" THEN id ELSE ws_tag(<<";">>, id.rest)} |->
    Val([o \in {opt(IF s.tag # "Ok" THEN s ELSE Ok(s.rest, id.val), in)} |-> IF o.tag # "Ok" THEN o ELSE
        IF ~o.val.some THEN Ok(o.rest, None)
        ELSE IF o.val.v = <<"O","N">> THEN Ok(o.rest, Some("On"))
        ELSE IF o.val.v = <<"O","F","F">> THEN Ok(o.rest, Some("Off"))
        ELSE Failure(o.val.v, "expected USEMINSPACING ON or OFF")])])])])

use_min_spacing(in) ==
    Val([k \in {ws_tag(<<"U","S","E","M","I","N","S","P","A","C","I","N","G">>, in)} |->
    Val([id \in {IF k.tag # "Ok" THEN k ELSE ws_identifier(k.rest)} |->
    Val([s \in {IF id.tag # "Ok" THEN id ELSE ws_tag(<<";">>, id.rest)} |->
    Val([o \in {opt(IF s.tag # "Ok" THEN s ELSE Ok(s.rest, id.val), in)} |-> IF o.tag # "Ok" THEN o ELSE
        IF ~o.val.some THEN Ok(o.rest, None)
        ELSE IF o.val.v \in {<<"O","N">>, <<"O","F","F">>} THEN Ok(o.rest, Some("On"))
        ELSE Failure(o.val.v, "expected USEMINSPACING ON or OFF")])])])])

\* many0(ws(layer))
layers(in) == many0(ws_layer, in)

tech_library(in) ==
    Val([v \in {version(in)} |-> IF v.tag # "Ok" THEN v ELSE
    Val([bb \in {busbit_chars(v.rest)} |-> IF bb.tag # "Ok" THEN bb ELSE
    Val([dc \in {divider_char(bb.rest)} |-> IF dc.tag # "Ok" THEN dc ELSE
    Val([un \in {units(dc.rest)} |-> IF un.tag # "Ok" THEN un ELSE
    Val([mf \in {opt(float_clause(<<"M","A","N","U","F","A","C","T","U","R","I","N","G","G","R","I","D">>, un.rest), un.rest)} |-> IF mf.tag # "Ok" THEN mf ELSE
    Val([ums \in {use_min_spacing(mf.rest)} |-> IF ums.tag # "Ok" THEN ums ELSE
    Val([ls \in {layers(ums.rest)} |-> IF ls.tag # "Ok" THEN ls ELSE
        Ok(ls.rest, [version |-> v.val, busbitchar |-> bb.val, dividechar |-> dc.val,
                     units |-> un.val, manufacturing_grid |-> mf.val,
                     use_min_spacing |-> ums.val, layers |-> ls.val])])])])])])])])

\* LefTechLibrary::from_str: the library, or LefReadError::Parse; what the
\* parser left unread is dropped
from_str(s) ==
    Val([r \in {tech_library(s)} |->
        IF r.tag = "Ok" THEN [tag |-> "Ok", val |-> r.val]
        ELSE IF r.tag = "Panic" THEN r
        ELSE [tag |-> "Err", kind |-> "Parse", of |-> r.tag]])

(***************************************************************************)
(* Calls of the LEF reader.  An input is a call of one function on a text  *)
(* built to a plan, and the plan is kept beside the text.                  *)
(*   "float"  digits, underscores and a point                             *)
(*   "layer"  one LAYER block of BlockPool                                 *)
(*   "props"  a MASTERSLICE or OVERLAP block with PROPERTY clauses         *)
(*   "lib"    the header of a library and LAYER blocks of BlockPool        *)
(***************************************************************************)
MaxFloatLen == 5
MaxLayers == 2
MaxProps == 3

FloatAlphabet == {"1", "0", "_", "."}
FloatCalls ==
    UNION {{[fn |-> "lef_float", in |-> [cls |-> "float", text |-> t]] :
            t \in [1..n -> FloatAlphabet]} : n \in 0..MaxFloatLen}

\* LAYER blocks: good ones, ones whose END name is another name, malformed
\* ones (no END, a mandatory clause missing, an ill-formed clause), one of
\* an unknown type and one whose LEF58_TRIMMEDMETAL value does not parse
BlockPool == <<
    [text |-> <<"L","A","Y","E","R"," ","m","1"," ","T","Y","P","E"," ","C","U","T"," ",";"," ","E","N","D"," ","m","1">>, name |-> <<"m","1">>, kind |-> "Cut", class |-> "good"],
    [text |-> <<"L","A","Y","E","R"," ","v","1"," ","T","Y","P","E"," ","C","U","T"," ",";"," ","M","A","S","K"," ","2"," ",";"," ","S","P","A","C","I","N","G"," ","0",".","1"," ","S","A","M","E","N","E","T"," ","A","R","E","A"," ","0",".","0","2"," ",";"," ","W","I","D","T","H"," ","0",".","2"," ",";"," ","E","N","C","L","O","S","U","R","E"," ","B","E","L","O","W"," ","0",".","1"," ","0",".","2"," ","L","E","N","G","T","H"," ","1"," ",";"," ","E","N","D"," ","v","1">>, name |-> <<"v","1">>, kind |-> "Cut", class |-> "good"],
    [text |-> <<"L","A","Y","E","R"," ","m","1"," ","T","Y","P","E"," ","C","U","T"," ",";"," ","E","N","D"," ","m","2">>, name |-> <<"m","1">>, kind |-> "Cut", class |-> "mismatch"],
    [text |-> <<"L","A","Y","E","R"," ","i","m"," ","T","Y","P","E"," ","I","M","P","L","A","N","T"," ",";"," ","W","I","D","T","H"," ","0",".","5"," ",";"," ","S","P","A","C","I","N","G"," ","0",".","1"," ","L","A","Y","E","R"," ","m","1"," ",";","\n","E","N","D"," ","i","m">>, name |-> <<"i","m">>, kind |-> "Implant", class |-> "good"],
    [text |-> <<"L","A","Y","E","R"," ","i","m"," ","T","Y","P","E"," ","I","M","P","L","A","N","T"," ",";"," ","W","I","D","T","H"," ","0",".","5"," ",";"," ","E","N","D"," ","i","n">>, name |-> <<"i","m">>, kind |-> "Implant", class |-> "mismatch"],
    [text |-> <<"L","A","Y","E","R"," ","r","1"," ","T","Y","P","E"," ","R","O","U","T","I","N","G"," ",";"," ","D","I","R","E","C","T","I","O","N"," ","H","O","R","I","Z","O","N","T","A","L"," ",";"," ","P","I","T","C","H"," ","0",".","2"," ","0",".","3"," ",";"," ","W","I","D","T","H"," ","0",".","1"," ",";"," ","S","P","A","C","I","N","G"," ","0",".","1"," ",";"," ","E","N","D"," ","r","1">>, name |-> <<"r","1">>, kind |-> "Routing", class |-> "good"],
    [text |-> <<"L","A","Y","E","R"," ","r","1"," ","T","Y","P","E"," ","R","O","U","T","I","N","G"," ",";"," ","D","I","R","E","C","T","I","O","N"," ","D","I","A","G","1","3","5"," ",";"," ","P","I","T","C","H"," ","0",".","2"," ",";"," ","W","I","D","T","H"," ","0",".","1"," ",";"," ","E","N","D"," ","r">>, name |-> <<"r","1">>, kind |-> "Routing", class |-> "mismatch"],
    [text |-> <<"L","A","Y","E","R"," ","m","s"," ","T","Y","P","E"," ","M","A","S","T","E","R","S","L","I","C","E"," ",";"," ","P","R","O","P","E","R","T","Y"," ","L","E","F","5","8","_","T","Y","P","E"," ","\"","T","Y","P","E"," ","N","W","E","L","L","\""," ",";"," ","E","N","D"," ","m","s">>, name |-> <<"m","s">>, kind |-> "Special", class |-> "good"],
    [text |-> <<"L","A","Y","E","R"," ","m","s"," ","T","Y","P","E"," ","M","A","S","T","E","R","S","L","I","C","E"," ",";"," ","E","N","D"," ","M","S">>, name |-> <<"m","s">>, kind |-> "Special", class |-> "mismatch"],
    [text |-> <<"L","A","Y","E","R"," ","o","v"," ","T","Y","P","E"," ","O","V","E","R","L","A","P"," ",";"," ","P","R","O","P","E","R","T","Y"," ","L","E","F","5","8","_","T","R","I","M","M","E","D","M","E","T","A","L"," ","\"","T","R","I","M","M","E","D","M","E","T","A","L"," ","m","1"," ","M","A","S","K"," ","2","\""," ",";"," ","E","N","D"," ","o","v">>, name |-> <<"o","v">>, kind |-> "Special", class |-> "good"],
    [text |-> <<"L","A","Y","E","R"," ","o","v"," ","T","Y","P","E"," ","O","V","E","R","L","A","P"," ",";"," ","E","N","D"," ","o","v","_">>, name |-> <<"o","v">>, kind |-> "Special", class |-> "mismatch"],
    [text |-> <<"L","A","Y","E","R"," ","m","3"," ","T","Y","P","E"," ","C","U","T"," ",";">>, name |-> <<"m","3">>, kind |-> "Cut", class |-> "malformed"],
    [text |-> <<"L","A","Y","E","R"," ","r","2"," ","T","Y","P","E"," ","R","O","U","T","I","N","G"," ",";"," ","P","I","T","C","H"," ","0",".","2"," ",";"," ","W","I","D","T","H"," ","0",".","1"," ",";"," ","E","N","D"," ","r","2">>, name |-> <<"r","2">>, kind |-> "Routing", class |-> "malformed"],
    [text |-> <<"L","A","Y","E","R"," ","i","2"," ","T","Y","P","E"," ","I","M","P","L","A","N","T"," ",";"," ","W","I","D","T","H"," ","x"," ",";"," ","E","N","D"," ","i","2">>, name |-> <<"i","2">>, kind |-> "Implant", class |-> "malformed"],
    [text |-> <<"L","A","Y","E","R"," ","p","1"," ","T","Y","P","E"," ","P","O","L","Y"," ",";"," ","E","N","D"," ","p","1">>, name |-> <<"p","1">>, kind |-> "None", class |-> "unknown type"],
    [text |-> <<"L","A","Y","E","R"," ","t","m"," ","T","Y","P","E"," ","M","A","S","T","E","R","S","L","I","C","E"," ",";"," ","P","R","O","P","E","R","T","Y"," ","L","E","F","5","8","_","T","R","I","M","M","E","D","M","E","T","A","L"," ","\"","m","1"," ","M","A","S","K"," ","2","\""," ",";"," ","E","N","D"," ","t","m">>, name |-> <<"t","m">>, kind |-> "Special", class |-> "bad value"] >>

LayerCalls ==
    {[fn |-> "layer",
      in |-> [cls |-> "layer", text |-> BlockPool[b].text \o tail, block |-> BlockPool[b], tail |-> tail]] :
     b \in 1..Len(BlockPool), tail \in {<<>>, <<"\n","L","A","Y","E","R"," ","x">>}}

\* PROPERTY clauses of a MASTERSLICE or OVERLAP layer: key and quoted value
PropPool == <<
    [key |-> <<"f","o","o">>, val |-> <<"b","a","r">>],
    [key |-> <<"L","E","F","5","8","_","T","Y","P","E">>, val |-> <<"T","Y","P","E"," ","N","W","E","L","L">>],
    [key |-> <<"L","E","F","5","8","_","T","Y","P","E">>, val |-> <<"t","y","p","e"," ","R","e","g","i","o","n">>],
    [key |-> <<"L","E","F","5","8","_","T","Y","P","E">>, val |-> <<"T","Y","P","E"," ","P","O","L","Y">>],
    [key |-> <<"l","e","f","5","8","_","t","y","p","e">>, val |-> <<"T","Y","P","E"," ","P","W","E","L","L">>],
    [key |-> <<"L","E","F","5","8","_","T","R","I","M","M","E","D","M","E","T","A","L">>, val |-> <<"T","R","I","M","M","E","D","M","E","T","A","L"," ","m","1"," ","M","A","S","K"," ","2">>],
    [key |-> <<"L","E","F","5","8","_","T","R","I","M","M","E","D","M","E","T","A","L">>, val |-> <<"m","1">>],
    [key |-> <<"L","e","f","5","8","_","T","r","i","m","m","e","d","M","e","t","a","l">>, val |-> <<"T","Y","P","E"," ","N","W","E","L","L">>] >>
PropText(ty, ps) ==
    <<"L","A","Y","E","R"," ","s"," ","T","Y","P","E"," ">> \o ty \o <<" ",";">>
    \o Flatten([i \in 1..Len(ps) |-> <<"\n"," ","P","R","O","P","E","R","T","Y"," ">> \o PropPool[ps[i]].key \o <<" ","\"">> \o PropPool[ps[i]].val \o <<"\""," ",";">>])
    \o <<"\n","E","N","D"," ","s">>
\* both types for the short blocks, MASTERSLICE for the others
PropTypes(n) == IF n <= 1 THEN {<<"M","A","S","T","E","R","S","L","I","C","E">>, <<"O","V","E","R","L","A","P">>} ELSE {<<"M","A","S","T","E","R","S","L","I","C","E">>}
PropCalls ==
    UNION {{[fn |-> "layer",
             in |-> [cls |-> "props", text |-> PropText(ty, ps), type |-> ty,
                     clauses |-> [i \in 1..n |-> PropPool[ps[i]]]]] :
            ty \in PropTypes(n), ps \in [1..n -> 1..Len(PropPool)]} :
           n \in 0..MaxProps}

Headers == {
    <<"V","E","R","S","I","O","N"," ","5",".","8"," ",";","\n","B","U","S","B","I","T","C","H","A","R","S"," ","\"","[","]","\""," ",";","\n","D","I","V","I","D","E","R","C","H","A","R"," ","\"","/","\""," ",";","\n","U","N","I","T","S"," ","D","A","T","A","B","A","S","E"," ","M","I","C","R","O","N","S"," ","2","0","0","0"," ",";"," ","E","N","D"," ","U","N","I","T","S","\n">>,
    <<"V","E","R","S","I","O","N"," ","5",".","8"," ",";"," ","B","U","S","B","I","T","C","H","A","R","S"," ","\"","<",">","\""," ",";"," ","D","I","V","I","D","E","R","C","H","A","R"," ","\"","$","\""," ",";"," ","U","N","I","T","S"," ","D","A","T","A","B","A","S","E"," ","M","I","C","R","O","N","S"," ","1","0","0"," ",";"," ","E","N","D"," ","U","N","I","T","S"," ","M","A","N","U","F","A","C","T","U","R","I","N","G","G","R","I","D"," ","0",".","0","0","5"," ",";"," ","U","S","E","M","I","N","S","P","A","C","I","N","G"," ","O","F","F"," ",";","\n">> }
\* the blocks of BlockPool the libraries are made of
LibBlocks == {1, 3, 5, 6, 7, 9, 12, 13, 14}
LibText(header, bs) == header \o Flatten([i \in 1..Len(bs) |-> BlockPool[bs[i]].text \o <<"\n">>])
LibCalls ==
    UNION {{[fn |-> fn,
             in |-> [cls |-> "lib", text |-> LibText(header, bs),
                     blocks |-> [i \in 1..n |-> BlockPool[bs[i]]]]] :
            fn \in {"tech_library", "from_str"}, header \in Headers,
            bs \in [1..n -> LibBlocks]} :
           n \in 0..MaxLayers}

\* headers with and without a USEMINSPACING statement, followed by nothing
\* or by a LAYER block
UmsWords == {<<>>, <<"O","N">>, <<"O","F","F">>, <<"o","n">>, <<"O","f","f">>, <<"M","A","Y","B","E">>, <<"O","N","_">>, <<"O">>}
UmsGrids == {<<>>, <<"M","A","N","U","F","A","C","T","U","R","I","N","G","G","R","I","D"," ","0",".","0","0","5"," ",";","\n">>}
UmsHeader == <<"V","E","R","S","I","O","N"," ","5",".","8"," ",";","\n","B","U","S","B","I","T","C","H","A","R","S"," ","\"","[","]","\""," ",";","\n","D","I","V","I","D","E","R","C","H","A","R"," ","\"","/","\""," ",";","\n","U","N","I","T","S"," ","D","A","T","A","B","A","S","E"," ","M","I","C","R","O","N","S"," ","2","0","0","0"," ",";"," ","E","N","D"," ","U","N","I","T","S","\n">>
UmsText(grid, word, tail) ==
    UmsHeader \o grid
    \o (IF word = <<>> THEN <<>> ELSE <<"U","S","E","M","I","N","S","P","A","C","I","N","G"," ">> \o word \o <<" ",";","\n">>) \o tail
UmsCalls ==
    {[fn |-> fn,
      in |-> [cls |-> "ums", text |-> UmsText(grid, word, BlockPool[b].text),
              word |-> word, block |-> BlockPool[b]]] :
     fn \in {"tech_library", "from_str"}, grid \in UmsGrids, word \in UmsWords, b \in {1, 6}}

\* ROUTING blocks: up to MaxClauses clauses of ClausePool in any order and
\* number, alone or between a MASK clause and MAXWIDTH and MINWIDTH clauses
MaxClauses == 4
ClausePool == <<
    [is |-> "DIRECTION", text |-> <<"D","I","R","E","C","T","I","O","N"," ","V","E","R","T","I","C","A","L"," ",";"," ">>],
    [is |-> "PITCH", text |-> <<"P","I","T","C","H"," ","0",".","2"," ",";"," ">>],
    [is |-> "PITCH", text |-> <<"P","I","T","C","H"," ","0",".","2"," ","0",".","3"," ",";"," ">>],
    [is |-> "WIDTH", text |-> <<"W","I","D","T","H"," ","0",".","1"," ",";"," ">>],
    [is |-> "AREA", text |-> <<"A","R","E","A"," ","0",".","5"," ",";"," ">>],
    [is |-> "SPACING", text |-> <<"S","P","A","C","I","N","G"," ","0",".","4"," ",";"," ">>] >>
RoutingFrames == {
    [before |-> <<>>, after |-> <<>>],
    [before |-> <<"M","A","S","K"," ","2"," ",";"," ">>, after |-> <<"M","A","X","W","I","D","T","H"," ","1",".","5"," ",";"," ","M","I","N","W","I","D","T","H"," ","0",".","1"," ",";"," ">>] }
RoutingText(cs, fr) ==
    <<"L","A","Y","E","R"," ","m","1"," ","T","Y","P","E"," ","R","O","U","T","I","N","G"," ",";"," ">> \o fr.before
    \o Flatten([i \in 1..Len(cs) |-> ClausePool[cs[i]].text]) \o fr.after \o <<"E","N","D"," ","m","1">>
RoutingCalls ==
    UNION {{[fn |-> "layer",
             in |-> [cls |-> "routing", text |-> RoutingText(cs, fr),
                     clauses |-> [i \in 1..n |-> ClausePool[cs[i]].is],
                     floats |-> IF n >= 2 /\ cs[2] = 3 THEN 2 ELSE 1]] :
            cs \in [1..n -> 1..Len(ClausePool)], fr \in RoutingFrames} :
           n \in 0..MaxClauses}

\* CUT layers with one SPACING clause that has an ADJACENTCUTS constraint:
\* the count as written, whether it fits 32 bits, and its value when it does
CutCounts == {
    [text |-> <<"0">>, fits |-> TRUE, value |-> 0],
    [text |-> <<"2">>, fits |-> TRUE, value |-> 2],
    [text |-> <<"2","5","5">>, fits |-> TRUE, value |-> 255],
    [text |-> <<"2","5","6">>, fits |-> TRUE, value |-> 256],
    [text |-> <<"2","5","8">>, fits |-> TRUE, value |-> 258],
    [text |-> <<"0","3","0","0">>, fits |-> TRUE, value |-> 300],
    [text |-> <<"6","5","5","3","8">>, fits |-> TRUE, value |-> 65538],
    [text |-> <<"2","1","4","7","4","8","3","6","4","7">>, fits |-> TRUE, value |-> 2147483647],
    [text |-> <<"4","2","9","4","9","6","7","2","9","6">>, fits |-> FALSE, value |-> 0],
    [text |-> <<"9","9","9","9","9","9","9","9","9","9","9">>, fits |-> FALSE, value |-> 0] }
CutFlags == {<<>>, <<"C","E","N","T","E","R","T","O","C","E","N","T","E","R"," ">>, <<"S","A","M","E","N","E","T"," ">>, <<"C","E","N","T","E","R","T","O","C","E","N","T","E","R"," ","S","A","M","E","N","E","T"," ">>}
CutCalls ==
    {[fn |-> "layer",
      in |-> [cls |-> "cut",
              text |-> <<"L","A","Y","E","R"," ","v","1"," ","T","Y","P","E"," ","C","U","T"," ",";"," ","S","P","A","C","I","N","G"," ","0",".","2"," ">> \o fl \o <<"A","D","J","A","C","E","N","T","C","U","T","S"," ">> \o c.text
                       \o <<" ","W","I","T","H","I","N"," ","0",".","3"," ">> \o ex \o <<";"," ","E","N","D"," ","v","1">>,
              count |-> c, except |-> ex # <<>>]] :
     c \in CutCounts, fl \in CutFlags, ex \in {<<>>, <<"E","X","C","E","P","T","S","A","M","E","P","G","N","E","T"," ">>}}

LefCalls == FloatCalls \cup LayerCalls \cup PropCalls \cup LibCalls \cup UmsCalls
            \cup RoutingCalls \cup CutCalls

LefInit ==
    /\ NoRead
    /\ \E c \in LefCalls : p_fn = c.fn /\ p_in = c.in
    /\ p_out = NotCalled /\ p_back = NotCalled

CallLefFloat ==
    /\ p_fn = "lef_float" /\ p_out = NotCalled
    /\ Returns(lef_float(p_in.text))

CallLayer ==
    /\ p_fn = "layer" /\ p_out = NotCalled
    /\ Returns(layer(p_in.text))

CallTechLibrary ==
    /\ p_fn = "tech_library" /\ p_out = NotCalled
    /\ Returns(tech_library(p_in.text))

CallFromStr ==
    /\ p_fn = "from_str" /\ p_out = NotCalled
    /\ Returns(from_str(p_in.text))

LefNext == CallLefFloat \/ CallLayer \/ CallTechLibrary \/ CallFromStr

LefSpec == LefInit /\ [][LefNext]_vars

(***************************************************************************)
(* Properties of single productions (ProdSpec)                             *)
(***************************************************************************)
\* the production p_fn has been called on p_in.text and has returned p_out
Returned == p_out.tag # "None"

\* C1: a letter-dispatched production called on a line whose name does not
\* begin with its letter (in either case) returns a recoverable Error; when
\* the letter matches, a mandatory field that is missing, malformed or not on
\* the logical line gives a fatal Failure, never an Error, and the whole line
\* parses.  resistor("Xhhh 1 n2 1.5k") is Error, resistor("Rhhh 1 n2 _") is
\* Failure.
C1_LetterCommits ==
    /\ (p_in.cls = "damage" /\ Returned) =>
        /\ ~p_in.letter_ok => p_out.tag = "Error"
        /\ p_in.letter_ok => p_out.tag # "Error"
        /\ (p_in.letter_ok /\ p_in.how # "none") => p_out.tag = "Failure"
        /\ (p_in.letter_ok /\ p_in.how = "none") => p_out.tag = "Ok"
    /\ (p_fn = "resistor" /\ Returned /\ p_in.text = <<"X","h","h","h"," ","1"," ","n","2"," ","1",".","5","k">>) => p_out.tag = "Error"
    /\ (p_fn = "resistor" /\ Returned /\ p_in.text = <<"R","h","h","h"," ","1"," ","n","2"," ","_">>) => p_out.tag = "Failure"

\* resistor("Rhhh 1 n2 _") has returned a Failure
C1_Witness ==
    /\ p_fn = "resistor" /\ p_in.text = <<"R","h","h","h"," ","1"," ","n","2"," ","_">>
    /\ p_in.cls = "damage" /\ p_in.letter_ok /\ p_out.tag = "Failure"

\* C3: a component, source, simulation-command or instance line in which the
\* whitespace between two fields holds a newline immediately followed by '+'
\* parses to exactly the result of the line written with single spaces.
C3_ContinuationIsWhitespace ==
    (p_in.cls = "cont" /\ Returned) =>
        /\ p_out.tag = "Ok"
        /\ p_out = Apply(p_fn, p_in.plain)

\* source("V1 1 0 \n+ DC 5") has returned what source("V1 1 0 DC 5") returns
C3_Witness ==
    /\ p_fn = "source" /\ p_in.cls = "cont"
    /\ p_in.text = <<"V","1"," ","1"," ","0"," ","\n","+"," ","D","C"," ","5">> /\ p_in.plain = <<"V","1"," ","1"," ","0"," ","D","C"," ","5">>
    /\ p_out.tag = "Ok" /\ p_out.val.name = <<"1">>

\* the number of characters a returned smart_space0 has consumed
Consumed == Len(p_in.text) - Len(p_out.rest)

\* C4: smart_space0 never fails; what it consumes is a prefix made of spaces,
\* tabs, carriage returns and newlines immediately followed by '+' (each '+'
\* consumed follows such a newline); it stops at the end of the input or in
\* front of a character that is none of these, so in front of every newline
\* that '+' does not follow.  A mandatory field on the next physical line
\* without '+' is a Failure: resistor("Rhhh 1  \r\nn2 1.5k").
C4_SkipperStopsAtBareNewline ==
    /\ (p_fn = "smart_space0" /\ Returned) =>
        /\ p_out.tag = "Ok"
        /\ p_out.rest = Drop(p_in.text, Consumed)
        /\ \A k \in 1..Consumed :
              \/ p_in.text[k] \in {" ", "\t", "\r"}
              \/ p_in.text[k] = "\n" /\ k < Consumed /\ p_in.text[k + 1] = "+"
              \/ p_in.text[k] = "+" /\ k > 1 /\ p_in.text[k - 1] = "\n"
        /\ p_out.rest # <<>> =>
              /\ p_out.rest[1] \notin {" ", "\t", "\r"}
              /\ ~starts_with(p_out.rest, <<"\n", "+">>)
    /\ (p_in.cls = "damage" /\ Returned /\ p_in.letter_ok /\ p_in.how = "newline") =>
          p_out.tag = "Failure"
    /\ (p_fn = "resistor" /\ Returned /\ p_in.text = <<"R","h","h","h"," ","1"," "," ","\r","\n","n","2"," ","1",".","5","k">>) =>
          p_out.tag = "Failure"

\* smart_space0 has stopped in front of a bare newline after a continuation,
\* or resistor("Rhhh 1  \r\nn2 1.5k") has returned a Failure
C4_Witness ==
    \/ /\ p_fn = "smart_space0" /\ p_in.text = <<"\n","+"," ","\n">> /\ p_out.tag = "Ok"
       /\ p_out.rest = <<"\n">>
    \/ /\ p_fn = "resistor" /\ p_in.text = <<"R","h","h","h"," ","1"," "," ","\r","\n","n","2"," ","1",".","5","k">>
       /\ p_out.tag = "Failure"

\* the body lines of the call that the loop takes as `is`
BodyNames(is) ==
    SelectSeq([i \in 1..Len(p_in.body) |-> BodyPool[p_in.body[i]]],
              LAMBDA b : b.is = is)
\* what is left of the text after the end line tail stands behind
AfterEndsLine(tail) ==
    IF \E k \in 1..Len(tail) : tail[k] = "\n"
    THEN Drop(tail, Min({k \in 1..Len(tail) : tail[k] = "\n"}))
    ELSE <<>>

\* C10: subckt returns a Subckt exactly when every body line is a component,
\* an instance, blank or a comment and a line starting with ".ends" in any
\* case ends the body; the rest of the input then begins after the newline
\* of that line (it is empty when the line has none).  Any other body line,
\* or the end of the input before a ".ends" line, gives a Failure.
C10_BodyEndsAtEndsLine ==
    (p_in.cls = "subckt" /\ Returned) =>
        IF p_in.ends /\ \A i \in 1..Len(p_in.body) : BodyPool[p_in.body[i]].is # "bad"
        THEN /\ p_out.tag = "Ok"
             /\ p_out.rest = AfterEndsLine(p_in.tail)
             /\ Len(p_out.val.components) = Len(BodyNames("component"))
             /\ Len(p_out.val.instances) = Len(BodyNames("instance"))
        ELSE p_out.tag = "Failure"

\* a body ended by ".EnDsX y" with a statement after it has been read, and
\* the statement is what is left
C10_Witness ==
    /\ p_in.cls = "subckt" /\ p_in.ends /\ p_out.tag = "Ok"
    /\ Len(p_in.body) = MaxBody
    /\ p_in.tail = <<"\r","\n","R","9"," ","a"," ","b"," ","1">> /\ p_out.rest = <<"R","9"," ","a"," ","b"," ","1">>
    /\ ends_with(p_in.text, <<".","E","n","D","s","X"," ","y","\r","\n","R","9"," ","a"," ","b"," ","1">>)

(***************************************************************************)
(* Properties of read_spice (Spec).  The history trace records every call  *)
(* of statement(): the offset of the loop head it was called on and how it *)
(* ended.                                                                  *)
(***************************************************************************)
\* the input statement() was last called on
LastCalled == Drop(full_input, trace[Len(trace)].pos)

NewlinesIn(s) == Cardinality({k \in 1..Len(s) : s[k] = "\n"})

\* the number of statements parsed so far
OkCount == Len(SelectSeq(trace, LAMBDA t : t.tag = "Ok"))

\* the first statement of the netlist that is not valid, 0 when all are
FirstBad ==
    IF \E i \in 1..Len(stmts) : stmts[i].kind \in {"Fatal", "Unknown", "Abort"}
    THEN Min({i \in 1..Len(stmts) : stmts[i].kind \in {"Fatal", "Unknown", "Abort"}})
    ELSE 0

\* the alternative of the dispatcher that fails fatally on h after every
\* earlier one has rejected h recoverably, 0 when there is none
FatalAlt(h) ==
    IF \E k \in 1..Len(StatementAlts) :
          /\ statement_alt(k, h).tag = "Failure"
          /\ \A j \in 1..(k - 1) : statement_alt(j, h).tag = "Error"
    THEN CHOOSE k \in 1..Len(StatementAlts) :
          /\ statement_alt(k, h).tag = "Failure"
          /\ \A j \in 1..(k - 1) : statement_alt(j, h).tag = "Error"
    ELSE 0

\* C2: when an alternative of the dispatcher fails fatally on a statement
\* (the earlier ones having rejected it), statement() returns that Failure:
\* read_spice ends with "Error at line N" carrying the context of that very
\* alternative, never with "Unknown statement", and N is 1 plus the number
\* of newlines of the original input in front of the failure position.
C2_FailureReturnedAtOnce ==
    trace # <<>> =>
        \A k \in {FatalAlt(LastCalled)} : k # 0 =>
            \A f \in {statement_alt(k, LastCalled)} :
                /\ trace[Len(trace)].tag = "Failure"
                /\ result.tag = "Err"
                /\ result.kind = "Error at line"
                /\ result.ctx = f.ctx
                /\ result.line = 1 + NewlinesIn(Take(full_input, Len(full_input) - Len(f.at)))

\* the sixth alternative (subckt) has failed on a body line, below the first
\* line of the input, and read_spice has reported that line
C2_Witness ==
    /\ trace # <<>> /\ result.tag = "Err" /\ result.kind = "Error at line"
    /\ FatalAlt(LastCalled) = 6
    /\ result.ctx = "unknown line in subckt"
    /\ result.line > 1 + NewlinesIn(Take(full_input, trace[Len(trace)].pos))

\* the number of the physical line on which statement idx of the netlist ss,
\* written in style, begins
FirstLineOf(ss, idx, style) ==
    1 + NewlinesIn(style.lead)
      + (IF idx = 1 THEN 0
         ELSE NewlinesIn(Join(LinesOf(SubSeq(ss, 1, idx - 1)), style.gap) \o style.gap))

\* C5: when every alternative rejects a line recoverably, read_spice ends
\* with "Unknown statement", quoting that line trimmed and giving its 1-based
\* number in the original input; such a line is the first invalid statement
\* of the netlist.  "R1 in out 1k\nTHIS_IS_INVALID" gives THIS_IS_INVALID and
\* line 2.
C5_UnknownStatement ==
    /\ (trace # <<>> /\ trace[Len(trace)].tag = "Error") =>
        /\ result.tag = "Err"
        /\ result.kind = "Unknown statement"
        /\ Len(trace) = FirstBad
        /\ stmts[FirstBad].kind = "Unknown"
        /\ result.text = trim(stmts[FirstBad].lines[1])
        /\ \E s \in 1..Len(Styles) :
              /\ full_input = Written(stmts, Styles[s])
              /\ result.line = FirstLineOf(stmts, FirstBad, Styles[s])
    /\ (result.tag # "Running" /\ FirstBad # 0 /\ stmts[FirstBad].kind = "Unknown") =>
          result.tag = "Err" /\ result.kind = "Unknown statement"
    /\ (result.tag # "Running" /\ full_input = <<"R","1"," ","i","n"," ","o","u","t"," ","1","k","\n","T","H","I","S","_","I","S","_","I","N","V","A","L","I","D">>) =>
          /\ result.tag = "Err" /\ result.kind = "Unknown statement"
          /\ result.text = <<"T","H","I","S","_","I","S","_","I","N","V","A","L","I","D">> /\ result.line = 2

\* "R1 in out 1k\nTHIS_IS_INVALID" has been read
C5_Witness ==
    /\ full_input = <<"R","1"," ","i","n"," ","o","u","t"," ","1","k","\n","T","H","I","S","_","I","S","_","I","N","V","A","L","I","D">>
    /\ result.tag = "Err" /\ result.kind = "Unknown statement"
    /\ result.text = <<"T","H","I","S","_","I","S","_","I","N","V","A","L","I","D">> /\ result.line = 2

\* what the last call of statement() ended with, for each kind of
\* statement that is not valid, and what read_spice ends with
EndOf(kind) ==
    CASE kind = "Fatal" -> [statement |-> "Failure", read_spice |-> "Err"]
      [] kind = "Unknown" -> [statement |-> "Error", read_spice |-> "Err"]
      [] kind = "Abort" -> [statement |-> "Panic", read_spice |-> "Panic"]

\* C6: read_spice stops at the first statement that fails: statement() is
\* called once for each statement up to and including that one and never
\* again, the result of a fatal or unknown statement is an Err that holds
\* no document (a statement that aborts gives no result at all), and a
\* document is returned, holding what was read, only when every statement
\* has parsed.
C6_StopsAtFirstFailure ==
    /\ \A i \in 1..Len(trace) :
          trace[i].tag \in {"Error", "Failure"} => (i = Len(trace) /\ result.tag = "Err")
    /\ \A i \in 1..Len(trace) :
          trace[i].tag = "Panic" => (i = Len(trace) /\ result.tag = "Panic")
    /\ FirstBad # 0 => Len(trace) <= FirstBad
    /\ result.tag # "Running" =>
          IF FirstBad = 0
          THEN /\ result = ReturnOk(spice)
               /\ OkCount = Len(stmts) /\ Len(trace) = Len(stmts)
          ELSE /\ result.tag = EndOf(stmts[FirstBad].kind).read_spice
               /\ "spice" \notin DOMAIN result
               /\ Len(trace) = FirstBad /\ OkCount = FirstBad - 1
               /\ trace[FirstBad].tag = EndOf(stmts[FirstBad].kind).statement

\* read_spice has returned an Err on a netlist whose first statement is
\* invalid and whose second is valid
C6_Witness ==
    /\ result.tag = "Err" /\ Len(stmts) = 2 /\ FirstBad = 1
    /\ stmts[2].kind = "Component" /\ Len(trace) = 1
    /\ spice = SpiceDefault

\* the seven sequences of the document, and the one a statement kind goes to
Fields == {"components", "sources", "simulation", "measures", "subckts", "instances", "model"}
FieldOf(kind) ==
    CASE kind = "Component" -> "components"
      [] kind = "Source" -> "sources"
      [] kind = "SimCommand" -> "simulation"
      [] kind = "Measure" -> "measures"
      [] kind = "Subckt" -> "subckts"
      [] kind = "Instance" -> "instances"
      [] kind = "Model" -> "model"
      [] OTHER -> "none"

\* the number of statements parsed so far that go to the sequence f
CountOf(f) == Len(SelectSeq(trace, LAMBDA t : FieldOf(t.kind) = f))

\* a step that parses a statement appends one entity to the sequence of the
\* statement's kind and to no other; any other step leaves the document
AppendsOne ==
    IF Len(trace') > Len(trace) /\ trace'[Len(trace')].tag = "Ok"
    THEN \E f \in Fields :
            /\ f = FieldOf(trace'[Len(trace')].kind)
            /\ Len(spice'[f]) = Len(spice[f]) + 1
            /\ SubSeq(spice'[f], 1, Len(spice[f])) = spice[f]
            /\ spice'[f][Len(spice'[f])] = statement(Drop(full_input, trace'[Len(trace')].pos)).val.v
            /\ \A g \in Fields \ {f} : spice'[g] = spice[g]
    ELSE spice' = spice

\* C7: each statement read_spice parses appends exactly one entity to the end
\* of the sequence of its kind and leaves the other six as they are; nothing
\* is removed or reordered, and the length of each sequence is the number of
\* statements of its kind parsed so far.  The netlist R1/C1/V1/.TRAN/.MEAS
\* gives 2 components, 1 source, 1 simulation command and 1 measure.
C7_OneAppendPerStatement ==
    /\ [][AppendsOne]_vars
    /\ [](\A f \in Fields : Len(spice[f]) = CountOf(f))
    /\ []((result.tag = "Ok" /\ stmts \in Examples /\ Len(stmts) = 5) =>
            /\ Len(result.spice.components) = 2 /\ Len(result.spice.sources) = 1
            /\ Len(result.spice.simulation) = 1 /\ Len(result.spice.measures) = 1
            /\ Len(result.spice.subckts) = 0 /\ Len(result.spice.instances) = 0
            /\ Len(result.spice.model) = 0)

\* the five-line netlist of test_read_spice_basic has been read: the resistor
\* stands before the capacitor
C7_Witness ==
    /\ result.tag = "Ok" /\ stmts \in Examples /\ Len(stmts) = 5
    /\ Len(spice.components) = 2
    /\ spice.components[1].kind = "R"
    /\ spice.components[2].kind = "C"
    /\ Len(spice.measures) = 1

\* C8: blank lines and comment lines (beginning with '*' or ';') in front of
\* the statements, between them, between the lines of a .SUBCKT body and
\* behind the last one do not change what read_spice returns: it returns a
\* document exactly when it does for the netlist with one statement line
\* after the other, and the same document.
C8_BlankAndCommentLinesIgnored ==
    result.tag # "Running" =>
        /\ (result.tag = "Ok") = (read_spice(base_input).tag = "Ok")
        /\ result.tag = "Ok" => result.spice = read_spice(base_input).spice

\* a netlist with a subcircuit, written with comment lines between all its
\* lines, has been read
C8_Witness ==
    /\ result.tag = "Ok" /\ full_input # base_input
    /\ starts_with(full_input, <<"*"," ","c","\n">>)
    /\ Len(result.spice.subckts) = 1
    /\ Len(result.spice.subckts[1].components) + Len(result.spice.subckts[1].instances) = 2

\* the statements of kind among those parsed so far
Parsed(kind) == SelectSeq(SubSeq(stmts, 1, OkCount), LAMBDA s : s.kind = kind)
NamesOf(seq) == [i \in 1..Len(seq) |-> seq[i].name]
ComponentNamesOf(seq) == [i \in 1..Len(seq) |-> seq[i].c.name]

\* C9: the component and instance lines between a .SUBCKT line and its .ENDS
\* line are stored, in source order, in the Subckt and not in the top-level
\* sequences, which hold the lines outside the blocks.  Two MOSFET lines in
\* a block and "X1 a b vdd gnd inv" after it give one subckt holding two
\* components, and one top-level instance.
C9_BodyLinesGoToTheSubckt ==
    /\ OkCount <= Len(stmts)
    /\ Len(spice.subckts) = Len(Parsed("Subckt"))
    /\ \A i \in 1..Len(spice.subckts) :
          /\ spice.subckts[i].name = Parsed("Subckt")[i].name
          /\ ComponentNamesOf(spice.subckts[i].components) = Parsed("Subckt")[i].components
          /\ NamesOf(spice.subckts[i].instances) = Parsed("Subckt")[i].instances
    /\ ComponentNamesOf(spice.components) = NamesOf(Parsed("Component"))
    /\ NamesOf(spice.instances) = NamesOf(Parsed("Instance"))
    /\ (result.tag = "Ok" /\ stmts \in Examples /\ Len(stmts) = 2) =>
          /\ Len(result.spice.subckts) = 1
          /\ Len(result.spice.subckts[1].components) = 2
          /\ Len(result.spice.instances) = 1
          /\ Len(result.spice.components) = 0

\* the netlist of test_read_spice_with_subckt_and_instance has been read
C9_Witness ==
    /\ result.tag = "Ok" /\ stmts \in Examples /\ Len(stmts) = 2
    /\ Len(spice.subckts) = 1
    /\ ComponentNamesOf(spice.subckts[1].components) = <<<<"1">>, <<"2">>>>
    /\ NamesOf(spice.instances) = <<<<"X","1">>>>

\* C11: an instance line with n >= 1 node tokens after its name gives the last
\* token as subckt_name and the first n-1 tokens, in the written order, as pins
\* (no pins when n = 1); with no token after the name it is a fatal Failure.
C11_LastTokenIsSubcktName ==
    (Returned /\ p_fn = "instance" /\ p_in.cls = "inst") =>
        IF p_in.tokens = <<>> THEN p_out.tag = "Failure"
        ELSE /\ p_out.tag = "Ok"
             /\ p_out.val.name = p_in.name
             /\ p_out.val.subckt_name = p_in.tokens[Len(p_in.tokens)]
             /\ p_out.val.pins = SubSeq(p_in.tokens, 1, Len(p_in.tokens) - 1)
             /\ p_out.rest = p_in.tail

C11_Witness ==
    /\ Returned /\ p_fn = "instance" /\ p_in.cls = "inst"
    /\ p_in.tokens = <<<<"a">>, <<"i","n","v">>, <<"0">>>>
    /\ p_out.tag = "Ok"
    /\ p_out.val.pins = <<<<"a">>, <<"i","n","v">>>> /\ p_out.val.subckt_name = <<"0">>

\* the pairs of a MOSFET call whose key, in lower case, is in ks
PairsKeyed(ks) ==
    {i \in 1..Len(p_in.pairs) : str_to_ascii_lowercase(p_in.pairs[i].key) \in ks}
OtherPairs == (1..Len(p_in.pairs)) \ PairsKeyed({<<"l">>, <<"w">>})

\* C12: mos_fet succeeds only if its key=value list gives a length (key l, any
\* letter case) and a width (key w, any letter case), and is a fatal Failure
\* otherwise; l and w are never keys of the parameters map, and the key of
\* every other pair is, with the value the pair gives (the last one of a
\* repeated key).
C12_LengthAndWidthRequired ==
    (Returned /\ p_fn = "mos_fet" /\ p_in.cls = "mos") =>
        IF PairsKeyed({<<"l">>}) = {} \/ PairsKeyed({<<"w">>}) = {} THEN p_out.tag = "Failure"
        ELSE /\ p_out.tag = "Ok"
             /\ p_out.val.length = number(p_in.pairs[Max(PairsKeyed({<<"l">>}))].val).val
             /\ p_out.val.width = number(p_in.pairs[Max(PairsKeyed({<<"w">>}))].val).val
             /\ DOMAIN p_out.val.parameters = {p_in.pairs[i].key : i \in OtherPairs}
             /\ \A k \in DOMAIN p_out.val.parameters :
                    str_to_ascii_lowercase(k) \notin {<<"l">>, <<"w">>}
             /\ \A i \in OtherPairs :
                    (\A j \in OtherPairs : p_in.pairs[j].key = p_in.pairs[i].key => j <= i)
                    => p_out.val.parameters[p_in.pairs[i].key] = number(p_in.pairs[i].val).val

C12_Witness ==
    /\ Returned /\ p_fn = "mos_fet" /\ p_in.cls = "mos"
    /\ p_in.pairs = <<ParamPool[5], ParamPool[1], ParamPool[4]>>
    /\ p_out.tag = "Ok"
    /\ DOMAIN p_out.val.parameters = {<<"A","D">>}
    /\ p_out.val.parameters[<<"A","D">>] = number(<<"5">>).val

\* C13: PWL(...) gives its (time, value) pairs in the written order, none
\* dropped and none moved; a list with no value, or with an odd number of
\* values, is a fatal Failure.
C13_PwlKeepsWrittenOrder ==
    (Returned /\ p_fn = "pwl_voltage" /\ p_in.cls = "pwl") =>
        IF Len(p_in.values) = 0 \/ Len(p_in.values) % 2 = 1 \/ ~p_in.closed
        THEN p_out.tag = "Failure"
        ELSE /\ p_out.tag = "Ok"
             /\ p_out.rest = <<>>
             /\ p_out.val.points =
                    [i \in 1..(Len(p_in.values) \div 2) |->
                        <<time_number(p_in.values[2 * i - 1]).val,
                          voltage_number(p_in.values[2 * i]).val>>]

C13_Witness ==
    /\ Returned /\ p_fn = "pwl_voltage" /\ p_in.cls = "pwl"
    /\ p_in.values = <<<<"2","n">>, <<"1",".","8">>, <<"0">>, <<"2","n">>>> /\ p_in.closed
    /\ p_out.tag = "Ok" /\ Len(p_out.val.points) = 2
    /\ p_out.val.points[1][1] = time_number(<<"2","n">>).val
    /\ p_out.val.points[2][1] = time_number(<<"0">>).val

\* the scale the table of the specification gives to scale letters
ScaleOf(letters) ==
    CASE letters \in {<<"g">>, <<"m","e","g">>} -> "Mega" [] letters = <<"k">> -> "Kilo"
      [] letters = <<"m">> -> "Milli" [] letters = <<"u">> -> "Micro"
      [] letters = <<"n">> -> "Nano" [] letters = <<"p">> -> "Pico"
NumCalled == Returned /\ p_fn \in NumberFns /\ p_in.cls = "num"

\* C14: in each of the seven number parsers a suffix is consumed whole and
\* never cut short at a shorter suffix that is its prefix: scale letters,
\* with or without the unit letter of the parser and in any letter case,
\* give the scale of those letters, and the text left is what follows the
\* suffix ("meg" is mega, never milli with "eg" left; "ms", "mv", "mA" are
\* consumed whole).
C14_LongestSuffixWins ==
    (NumCalled /\ p_in.scale # <<>>) =>
        /\ p_out.tag = "Ok"
        /\ p_out.rest = p_in.tail
        /\ p_out.val.suffix = ScaleOf(p_in.scale)
        /\ p_out.val.value = float(p_in.mag).val

C14_Witness ==
    /\ NumCalled /\ p_fn = "time_number"
    /\ p_in.text = <<"-","2",".","5","M","E","G","S"," ","7">>
    /\ p_out.tag = "Ok" /\ p_out.val.suffix = "Mega" /\ p_out.rest = <<" ","7">>

\* C15: in each of the six parsers of a quantity, a magnitude followed by
\* just the unit letter of the quantity is read with scale none, the same
\* value as the magnitude alone.
C15_BareUnitIsScaleNone ==
    (NumCalled /\ p_in.scale = <<>> /\ p_in.unit # <<>>) =>
        /\ p_out.tag = "Ok"
        /\ p_out.rest = p_in.tail
        /\ p_out.val.suffix = "None"
        /\ p_out.val = Apply(p_fn, p_in.mag).val

\* the same with the inductance parser left out
C15_BareUnitExceptInductance ==
    (NumCalled /\ p_in.scale = <<>> /\ p_in.unit # <<>> /\ p_fn # "inductance_number") =>
        /\ p_out.tag = "Ok"
        /\ p_out.rest = p_in.tail
        /\ p_out.val.suffix = "None"
        /\ p_out.val = Apply(p_fn, p_in.mag).val

\* the inductance parser reads a bare H as pico
C15_InductanceBareUnitIsPico ==
    /\ NumCalled /\ p_fn = "inductance_number"
    /\ p_in.text = <<"1","H">>
    /\ p_out.tag = "Ok" /\ p_out.rest = <<>> /\ p_out.val.suffix = "Pico"
    /\ p_out.val # inductance_number(<<"1">>).val

(***************************************************************************)
(* Properties of the LEF reader (LefSpec)                                  *)
(***************************************************************************)
\* text of digits with underscores between digits only, one underscore at least
UnderscoredDigits(t) ==
    /\ t # <<>> /\ t[1] \in Digit /\ t[Len(t)] \in Digit
    /\ \A i \in 1..Len(t) : t[i] \in Digit \cup {"_"}
    /\ \E i \in 1..Len(t) : t[i] = "_"
NoUnderscores(t) == SelectSeq(t, LAMBDA c : c # "_")

\* C16: the LEF float accepts underscores between digits as separators that
\* mean nothing: the text is read whole, as the number its digits alone give
\* (1_000 is read as 1000).
C16_UnderscoresAreSeparators ==
    (Returned /\ p_fn = "lef_float" /\ UnderscoredDigits(p_in.text)) =>
        /\ p_out.tag = "Ok"
        /\ p_out.rest = <<>>
        /\ p_out.val = lef_float(NoUnderscores(p_in.text)).val

\* float("1_000") is an error: the text is recognized but f64::from_str refuses it
C16_UnderscoreIsRefused ==
    /\ Returned /\ p_fn = "lef_float" /\ p_in.text = <<"1","_","0","0","0">>
    /\ p_out.tag = "Error" /\ p_out.ctx = "MapRes"
    /\ lef_float(<<"1","0","0","0">>).tag = "Ok"

\* every text with an underscore in the part float recognizes is an error
C16_NoUnderscoreIsAccepted ==
    (Returned /\ p_fn = "lef_float" /\ UnderscoredDigits(p_in.text)) => p_out.tag = "Error"

\* the first block of a library that is not a good one, 0 if all are good
FirstNotGood ==
    Val([bad \in {{i \in 1..Len(p_in.blocks) : p_in.blocks[i].class # "good"}} |->
        IF bad = {} THEN 0 ELSE Min(bad)])
LayerNames(ls) == [i \in 1..Len(ls) |-> ls[i].l.name]
LayerKinds(ls) == [i \in 1..Len(ls) |-> ls[i].kind]

\* C17: in each of the four layer sub-grammars the layer is produced only if
\* the name after END is the name after LAYER; another name is a fatal
\* Failure, which ends the repetition of LAYER blocks: tech_library fails
\* with it and from_str returns an error.  "LAYER m1 TYPE CUT ; END m1" is a
\* layer and "LAYER m1 TYPE CUT ; END m2" a Failure.
C17_EndNameMustMatch ==
    /\ (Returned /\ p_fn = "layer" /\ p_in.cls = "layer") =>
        /\ p_in.block.class = "good" =>
            /\ p_out.tag = "Ok" /\ p_out.rest = Drop(p_in.tail, SpanLen(p_in.tail, {" ", "\t", "\r", "\n"}))
            /\ p_out.val.kind = p_in.block.kind /\ p_out.val.l.name = p_in.block.name
        /\ p_in.block.class = "mismatch" =>
            p_out.tag = "Failure" /\ p_out.ctx = "un match end name"
        /\ p_in.text = <<"L","A","Y","E","R"," ","m","1"," ","T","Y","P","E"," ","C","U","T"," ",";"," ","E","N","D"," ","m","1">> => p_out.tag = "Ok"
        /\ p_in.text = <<"L","A","Y","E","R"," ","m","1"," ","T","Y","P","E"," ","C","U","T"," ",";"," ","E","N","D"," ","m","2">> => p_out.tag = "Failure"
    /\ (Returned /\ p_in.cls = "lib" /\ FirstNotGood = 0) =>
        /\ p_out.tag = "Ok"
        /\ LayerNames(p_out.val.layers) = [i \in 1..Len(p_in.blocks) |-> p_in.blocks[i].name]
        /\ LayerKinds(p_out.val.layers) = [i \in 1..Len(p_in.blocks) |-> p_in.blocks[i].kind]
    /\ (Returned /\ p_in.cls = "lib" /\ FirstNotGood > 0) =>
        (p_in.blocks[FirstNotGood].class = "mismatch" =>
            IF p_fn = "tech_library"
            THEN p_out.tag = "Failure" /\ p_out.ctx = "un match end name"
            ELSE p_out.tag = "Err")

C17_Witness ==
    /\ Returned /\ p_fn = "tech_library" /\ p_in.cls = "lib"
    /\ Len(p_in.blocks) = 2
    /\ p_in.blocks[1].class = "good" /\ p_in.blocks[1].kind = "Cut"
    /\ p_in.blocks[2].class = "mismatch" /\ p_in.blocks[2].kind = "Routing"
    /\ p_out.tag = "Failure" /\ p_out.ctx = "un match end name"

\* C18: a library with a LAYER block that is malformed (its END missing, a
\* mandatory clause missing, a clause ill-formed, an END name that is not
\* its name, an unknown type) is not read in part: from_str returns an error,
\* never a library.
C18_AllOrNothing ==
    (Returned /\ p_fn = "from_str" /\ p_in.cls = "lib" /\ FirstNotGood > 0
     /\ \A i \in 1..Len(p_in.blocks) : p_in.blocks[i].class # "bad value") =>
        p_out.tag = "Err"

\* from_str on a good CUT layer followed by a LAYER block with no END returns
\* a library that holds the first layer only
C18_PartialLibrary ==
    /\ Returned /\ p_fn = "from_str" /\ p_in.cls = "lib"
    /\ Len(p_in.blocks) = 2
    /\ p_in.blocks[1].text = <<"L","A","Y","E","R"," ","m","1"," ","T","Y","P","E"," ","C","U","T"," ",";"," ","E","N","D"," ","m","1">>
    /\ p_in.blocks[2].text = <<"L","A","Y","E","R"," ","m","3"," ","T","Y","P","E"," ","C","U","T"," ",";">>
    /\ p_out.tag = "Ok" /\ LayerNames(p_out.val.layers) = <<<<"m","1">>>>

\* what from_str does: a block that fails with a recoverable error ends the
\* repetition, and the library holds the layers before it
C18_LayersBeforeTheMalformedBlock ==
    (Returned /\ p_fn = "from_str" /\ p_in.cls = "lib" /\ FirstNotGood > 0
     /\ p_in.blocks[FirstNotGood].class = "malformed") =>
        /\ p_out.tag = "Ok"
        /\ LayerNames(p_out.val.layers) = [i \in 1..(FirstNotGood - 1) |-> p_in.blocks[i].name]

\* the outcomes that are return values
ReturnValues == {"Ok", "Error", "Failure", "Err"}

\* C19: every failure of a parser is a return value, none an abort; a
\* MASTERSLICE or OVERLAP layer whose LEF58_TRIMMEDMETAL value is not of the
\* form TRIMMEDMETAL <layer> [MASK <uint>] gives an error result.
C19_FailuresAreReturnValues ==
    /\ Returned => p_out.tag \in ReturnValues
    /\ (Returned /\ p_fn = "layer" /\ p_in.cls = "props"
        /\ \E i \in 1..Len(p_in.clauses) :
               /\ p_in.clauses[i].key = <<"L","E","F","5","8","_","T","R","I","M","M","E","D","M","E","T","A","L">>
               /\ special_layer_trimmedmetal_value(p_in.clauses[i].val).tag # "Ok")
       => p_out.tag \in {"Error", "Failure"}

\* layer on a MASTERSLICE block with PROPERTY LEF58_TRIMMEDMETAL "m1" aborts
C19_TrimmedMetalAborts ==
    /\ Returned /\ p_fn = "layer" /\ p_in.cls = "props"
    /\ p_in.type = <<"M","A","S","T","E","R","S","L","I","C","E">>
    /\ p_in.clauses = <<[key |-> <<"L","E","F","5","8","_","T","R","I","M","M","E","D","M","E","T","A","L">>, val |-> <<"m","1">>]>>
    /\ p_out.tag = "Panic"

\* the clauses of a call that the loop of special_layer leaves in the list
GenericClauses ==
    SelectSeq(p_in.clauses, LAMBDA c : c.key \notin {<<"L","E","F","5","8","_","T","Y","P","E">>, <<"L","E","F","5","8","_","T","R","I","M","M","E","D","M","E","T","A","L">>})
\* the LEF58_TYPE clauses whose value, in upper case, is one of the eight
TypeWords == {<<"N","W","E","L","L">>, <<"P","W","E","L","L">>, <<"A","B","O","V","E","D","I","E","E","D","G","E">>, <<"B","E","L","O","W","D","I","E","E","D","G","E">>, <<"D","I","F","F","U","S","I","O","N">>, <<"T","R","I","M","P","O","L","Y">>, <<"T","R","I","M","M","E","T","A","L">>, <<"R","E","G","I","O","N">>}
ValidTypeClauses ==
    {i \in 1..Len(p_in.clauses) :
        /\ p_in.clauses[i].key = <<"L","E","F","5","8","_","T","Y","P","E">>
        /\ \E w \in TypeWords : str_to_ascii_uppercase(p_in.clauses[i].val) = <<"T","Y","P","E"," ">> \o w}
NoBadTrimmedMetal ==
    \A i \in 1..Len(p_in.clauses) :
        p_in.clauses[i].key = <<"L","E","F","5","8","_","T","R","I","M","M","E","D","M","E","T","A","L">>
        => special_layer_trimmedmetal_value(p_in.clauses[i].val).tag = "Ok"

\* C20: the properties of a MASTERSLICE or OVERLAP layer are the PROPERTY
\* clauses whose key is neither LEF58_TYPE nor LEF58_TRIMMEDMETAL (as written,
\* letter case counts), in the order of the source; a LEF58_TYPE clause sets
\* lef58_type when its value in upper case is one of the eight TYPE <WORD>
\* strings, and is dropped otherwise, with no error and no entry in properties.
C20_GenericProperties ==
    (Returned /\ p_fn = "layer" /\ p_in.cls = "props" /\ NoBadTrimmedMetal) =>
        /\ p_out.tag = "Ok"
        /\ p_out.val.l.properties = [i \in 1..Len(GenericClauses) |->
                                        <<GenericClauses[i].key, GenericClauses[i].val>>]
        /\ p_out.val.l.lef58_type.some = (ValidTypeClauses # {})
        /\ \A i \in ValidTypeClauses :
               (\A j \in ValidTypeClauses : j <= i) =>
                   \E r \in 1..Len(Lef58TypeRows) :
                       /\ Lef58TypeRows[r][1] = str_to_ascii_uppercase(p_in.clauses[i].val)
                       /\ p_out.val.l.lef58_type.v = Lef58TypeRows[r][2]

C20_Witness ==
    /\ Returned /\ p_fn = "layer" /\ p_in.cls = "props"
    /\ p_in.clauses = <<PropPool[1], PropPool[4], PropPool[5]>>
    /\ p_out.tag = "Ok"
    /\ p_out.val.l.properties = <<<<<<"f","o","o">>, <<"b","a","r">>>>, <<<<"l","e","f","5","8","_","t","y","p","e">>, <<"T","Y","P","E"," ","P","W","E","L","L">>>>>>
    /\ ~p_out.val.l.lef58_type.some

ElementFns == {"resistor", "capacitor", "inductor", "diode", "bjt", "mos_fet"}

\* C21: every element returned by the six element parsers has a non-empty
\* name after the type letter is stripped, also when the designator of the
\* line is the bare type letter ("R a b 1k").
C21_NameIsNonEmpty ==
    (Returned /\ p_fn \in ElementFns /\ p_out.tag = "Ok") => p_out.val.name # <<>>

\* the name is the designator without its first character, whatever is left
C21_NameIsDesignatorTail ==
    (Returned /\ p_in.cls = "desig") =>
        /\ p_out.tag = "Ok"
        /\ p_out.val.name = Tail(p_in.designator)

\* resistor("R a b 1k") returns a Resistor whose name is empty
C21_BareLetterGivesEmptyName ==
    /\ Returned /\ p_fn = "resistor" /\ p_in.text = <<"R"," ","1"," ","n","2"," ","1",".","5","k">>
    /\ p_out.tag = "Ok" /\ p_out.val.name = <<>>
    /\ p_out.val.node_pos = <<"1">> /\ p_out.val.node_neg = <<"n","2">>

ReadAgain == p_back.tag = "Back"

\* C22: an element that a parser returned, serialized with to_spice and
\* parsed again by the same parser, gives an element with equal name, nodes
\* and model name.  Stated for the diode and the BJT, whose serializers
\* print strings only.
C22_RoundTrip ==
    ReadAgain =>
        /\ p_back.again.tag = "Ok"
        /\ p_back.again.val = p_out.val

\* the round trip of the BJT alone: the line is written back with its Q
C22_BjtRoundTrip ==
    (ReadAgain /\ p_fn = "bjt") =>
        /\ p_back.again.tag = "Ok"
        /\ p_back.again.val = p_out.val
        /\ p_back.again.rest = <<>>

\* "D1 a k dm" is written back as "1 a k dm", which diode does not read
C22_DiodeLosesItsLetter ==
    /\ ReadAgain /\ p_fn = "diode" /\ p_in.text = <<"D","1"," ","a"," ","k"," ","d","m">>
    /\ p_out.tag = "Ok" /\ p_out.val.name = <<"1">>
    /\ p_back.text = <<"1"," ","a"," ","k"," ","d","m">>
    /\ p_back.again.tag = "Error"

\* "Dd1 a k dm" is written back as "d1 a k dm": a diode of another name
C22_DiodeChangesItsName ==
    /\ ReadAgain /\ p_fn = "diode" /\ p_in.text = <<"D","d","1"," ","a"," ","k"," ","d","m">>
    /\ p_out.val.name = <<"d","1">>
    /\ p_back.again.tag = "Ok" /\ p_back.again.val.name = <<"1">>

MeasCalled == Returned /\ p_fn = "measure_command" /\ p_in.cls = "meas"
FormOf(kw) ==
    IF kw = <<"T","R","I","G">> THEN "Rise"
    ELSE IF kw = <<"F","I","N","D">> THEN "FindWhen"
    ELSE IF \E i \in 1..Len(FunctionWords) : FunctionWords[i] = kw THEN "BasicStat"
    ELSE "none"

\* C23: after ".MEAS <TRAN|AC|DC> <name>" the next keyword alone selects the
\* form: TRIG gives Rise, a statistic word gives BasicStat, FIND gives
\* FindWhen.  Without one of these keywords, or with the selected form
\* incomplete, measure_command returns a Failure; a line that does not start
\* with .MEAS gives a recoverable Error.
C23_KeywordSelectsTheForm ==
    MeasCalled =>
        IF ~p_in.meas THEN p_out.tag = "Error"
        ELSE IF FormOf(p_in.kw) = "none" \/ ~p_in.complete THEN p_out.tag = "Failure"
        ELSE /\ p_out.tag = "Ok"
             /\ p_out.val.kind = FormOf(p_in.kw)
             /\ p_out.val.m.name = p_in.name
             /\ p_out.val.m.analysis = p_in.analysis

\* ".meas ac x find I(Vmeas) WHEN V(n1)=1V" gives a FindWhen
C23_Witness ==
    /\ MeasCalled /\ p_in.text = <<".","m","e","a","s"," ","a","c"," ","x"," ","f","i","n","d"," ","I","(","V","m","e","a","s",")"," ","W","H","E","N"," ","V","(","n","1",")","=","1","V">>
    /\ p_out.tag = "Ok" /\ p_out.val.kind = "FindWhen"
    /\ p_out.val.m.variable.kind = "Current"

\* ".MEAS TRAN rise1 TRIG V(1) VAL=.2 RISE=1" lacks its TARG side: Failure
C23_IncompleteIsFatal ==
    /\ MeasCalled /\ p_in.text = <<".","M","E","A","S"," ","T","R","A","N"," ","r","i","s","e","1"," ","T","R","I","G"," ","V","(","1",")"," ","V","A","L","=",".","2"," ","R","I","S","E","=","1">>
    /\ p_out.tag = "Failure"

VarCalled == Returned /\ p_fn = "output_variable" /\ p_in.cls = "var"

\* C24: the suffix of an output variable is decided by the end of the text
\* between the parentheses: "M" gives Magnitude, else "DB" Decibel, else "P"
\* Phase, else "R" Real, else "I" Imag, in upper case only; any other end
\* gives no suffix.
C24_SuffixByEnding ==
    VarCalled =>
        /\ p_out.tag = "Ok"
        /\ p_out.rest = Drop(p_in.tail, SpanLen(p_in.tail, {" "}))
        /\ p_out.val.kind = (IF str_to_ascii_uppercase(p_in.kind) = <<"V">> THEN "Voltage" ELSE "Current")
        /\ p_out.val.suffix = (IF p_in.suffix = "" THEN None ELSE Some(p_in.suffix))

\* I(Vmeas_DBM) ends with M: Magnitude, and the element name keeps the letters
C24_Witness ==
    /\ VarCalled /\ p_in.text = <<"I","(","V","m","e","a","s","_","D","B","M",")"," ","=","1">>
    /\ p_out.tag = "Ok" /\ p_out.val.suffix = Some("Magnitude")
    /\ p_out.val.element_name = <<"V","m","e","a","s","_","D","B","M">>

AcCalled == Returned /\ p_fn = "source" /\ p_in.cls = "ac"
AcKindOf(name) == IF to_ascii_uppercase(name[1]) = "V" THEN "AcVoltage" ELSE "AcCurrent"

\* C25: in a source line the AC keyword is optional: a magnitude followed by
\* a phase is accepted as an AC value (AcVoltage for a V source, AcCurrent
\* for an I source) with or without "AC" or "AC=" before it.
C25_AcKeywordIsOptional ==
    AcCalled =>
        /\ p_out.tag = "Ok"
        /\ p_out.rest = <<>>
        /\ p_out.val.value.kind = AcKindOf(p_in.name)
        /\ p_out.val.value.v.magnitude.value = float(p_in.mag).val
        /\ p_out.val.value.v.phase_deg.value = float(p_in.phase).val

\* the same for the lines that have the keyword
C25_AcAfterKeyword ==
    (AcCalled /\ p_in.keyword # <<>>) =>
        /\ p_out.tag = "Ok"
        /\ p_out.rest = <<>>
        /\ p_out.val.value.kind = AcKindOf(p_in.name)
        /\ p_out.val.value.v.magnitude.value = float(p_in.mag).val
        /\ p_out.val.value.v.phase_deg.value = float(p_in.phase).val

\* "V1 in 0 1 90" is read as the DC value 1 and the phase is left unread
C25_BareAcIsReadAsDc ==
    /\ AcCalled /\ p_in.text = <<"V","1"," ","i","n"," ","0"," ","1"," ","9","0">>
    /\ p_out.tag = "Ok" /\ p_out.val.value.kind = "DcVoltage"
    /\ p_out.val.value.v.value = float(<<"1">>).val
    /\ p_out.rest = <<"9","0">>

UmsCalled == Returned /\ p_in.cls = "ums"

\* C26: in the header "USEMINSPACING ON ;" and "USEMINSPACING OFF ;" set
\* use_min_spacing to the same value; any other identifier after
\* USEMINSPACING is a Failure; without the statement the field stays unset.
C26_OnAndOffAreTheSame ==
    UmsCalled =>
        IF p_in.word = <<>>
        THEN p_out.tag = "Ok" /\ p_out.val.use_min_spacing = None
        ELSE IF p_in.word \in {<<"O","N">>, <<"O","F","F">>}
        THEN p_out.tag = "Ok" /\ p_out.val.use_min_spacing = Some("On")
        ELSE IF p_fn = "tech_library"
        THEN p_out.tag = "Failure" /\ p_out.at = p_in.word
        ELSE p_out.tag = "Err" /\ p_out.of = "Failure"

\* a header with USEMINSPACING OFF gives a library whose field is On
C26_Witness ==
    /\ UmsCalled /\ p_fn = "from_str" /\ p_in.word = <<"O","F","F">>
    /\ p_out.tag = "Ok" /\ p_out.val.use_min_spacing = Some("On")
    /\ Len(p_out.val.layers) = 1

RoutingCalled == Returned /\ p_fn = "layer" /\ p_in.cls = "routing"
Mandatory == <<"DIRECTION", "PITCH", "WIDTH">>
Optional == {"AREA", "SPACING"}
Count(cs, c) == Cardinality({i \in 1..Len(cs) : cs[i] = c})

\* C27: a ROUTING block gives a layer only if, after the optional MASK
\* clause, DIRECTION, PITCH and WIDTH all appear, each once and in that
\* order, before any optional clause and before END.  PITCH with one float
\* gives Uniform, with two floats XY.
C27_MandatoryClausesInOrder ==
    (RoutingCalled /\ p_out.tag = "Ok") =>
        /\ p_out.val.kind = "Routing"
        /\ Len(p_in.clauses) >= 3
        /\ SubSeq(p_in.clauses, 1, 3) = Mandatory
        /\ \A i \in 1..3 : Count(p_in.clauses, Mandatory[i]) = 1
        /\ \A i \in 4..Len(p_in.clauses) : p_in.clauses[i] \in Optional
        /\ p_out.val.l.pitch[1] = (IF p_in.floats = 2 THEN "XY" ELSE "Uniform")
        /\ Len(p_out.val.l.pitch) = p_in.floats + 1

\* the three clauses in order, then AREA: a layer with an XY pitch
C27_Witness ==
    /\ RoutingCalled
    /\ p_in.text = <<"L","A","Y","E","R"," ","m","1"," ","T","Y","P","E"," ","R","O","U","T","I","N","G"," ",";"," ","D","I","R","E","C","T","I","O","N"," ","V","E","R","T","I","C","A","L"," ",";"," ","P","I","T","C","H"," ","0",".","2"," ","0",".","3"," ",";"," ","W","I","D","T","H"," ","0",".","1"," ",";"," ","A","R","E","A"," ","0",".","5"," ",";"," ","E","N","D"," ","m","1">>
    /\ p_out.tag = "Ok" /\ p_out.val.kind = "Routing"
    /\ p_out.val.l.pitch[1] = "XY" /\ p_out.val.l.direction = "Vertical"
    /\ p_out.val.l.area.some

\* PITCH before DIRECTION: no layer
C27_OutOfOrderIsRefused ==
    /\ RoutingCalled /\ p_in.clauses = <<"PITCH", "DIRECTION", "WIDTH">>
    /\ p_out.tag # "Ok"

CutCalled == Returned /\ p_fn = "layer" /\ p_in.cls = "cut"

\* C30: the ADJACENTCUTS count of a CUT layer SPACING clause is read as a
\* 32-bit unsigned integer and stored in 8 bits as the written value modulo
\* 256, without a range check: 258 is stored as 2 and 256 as 0, and the
\* clause is accepted; a count that does not fit 32 bits is not read.
C30_CountIsStoredModulo256 ==
    CutCalled =>
        IF p_in.count.fits
        THEN /\ p_out.tag = "Ok" /\ p_out.val.kind = "Cut"
             /\ Len(p_out.val.l.spacing) = 1
             /\ p_out.val.l.spacing[1].constraint.some
             /\ p_out.val.l.spacing[1].constraint.v.kind = "AdjacentCuts"
             /\ p_out.val.l.spacing[1].constraint.v.count = p_in.count.value % 256
             /\ p_out.val.l.spacing[1].constraint.v.count \in 0..255
             /\ p_out.val.l.spacing[1].constraint.v.except_same_pg_net = p_in.except
        ELSE p_out.tag # "Ok"

\* a written count of 258 is stored as 2
C30_Witness ==
    /\ CutCalled /\ p_in.count.text = <<"2","5","8">>
    /\ p_out.tag = "Ok"
    /\ p_out.val.l.spacing[1].constraint.v.count = 2

\* a written count of 256 is stored as 0
C30_256IsStoredAs0 ==
    /\ CutCalled /\ p_in.count.text = <<"2","5","6">>
    /\ p_out.tag = "Ok"
    /\ p_out.val.l.spacing[1].constraint.v.count = 0

\* a count of 2^32 is not read: no layer
C30_TooLongIsRefused ==
    /\ CutCalled /\ p_in.count.text = <<"4","2","9","4","9","6","7","2","9","6">>
    /\ p_out.tag # "Ok"

(***************************************************************************)
(* Properties of the dispatchers (ProdSpec)                                *)
(***************************************************************************)
AltCalled == p_in.cls = "alt" /\ p_out # NotCalled

\* the alternatives that get past their commitment point on the text
Taken(fn, text) ==
    IF fn = "statement"
    THEN {k \in 1..Len(StatementAlts) : statement_alt(k, text).tag # "Error"}
    ELSE {k \in 1..Len(ComponentAlts) : component_alt(k, text).tag # "Error"}

\* what a dispatcher returns; of a line no alternative takes, only that it
\* was not taken
Outcome(r) == IF r.tag = "Error" THEN [tag |-> "Error"] ELSE r

\* C29: the seven statement alternatives and the six component alternatives
\* are mutually exclusive: on any input at most one alternative gets past
\* its commitment point, so the dispatcher returns the same entity or the
\* same fatal error, or refuses the line, in whatever order the
\* alternatives are tried.
C29_AlternativesAreExclusive ==
    AltCalled =>
        /\ Cardinality(Taken(p_fn, p_in.text)) <= 1
        /\ Outcome(p_out) =
              Outcome(IF p_fn = "statement" THEN statement(p_in.text)
                      ELSE component(p_in.text))

\* a resistor line is taken by the component alternative when it is tried last
C29_Witness ==
    /\ AltCalled /\ p_fn = "statement"
    /\ p_in.order = Reversed([i \in 1..Len(StatementAlts) |-> i])
    /\ p_in.text = <<"R","1"," ","a"," ","b"," ","1","k">>
    /\ p_out.tag = "Ok" /\ p_out.val.kind = "Component" /\ p_out.val.v.kind = "R"

\* a MOSFET line without its model is a fatal error of the last element
\* parser, tried first
C29_FatalInAnyOrder ==
    /\ AltCalled /\ p_fn = "component"
    /\ p_in.order = Reversed([i \in 1..Len(ComponentAlts) |-> i])
    /\ p_in.text = <<"M","1"," ","a"," ","b">>
    /\ p_out.tag = "Failure"

\* a line that starts with the keyword of no alternative is taken by none
C29_TakenByNone ==
    /\ AltCalled /\ p_fn = "statement" /\ p_in.text = <<".","E","N","D"," ","a"," ","b">>
    /\ p_out.tag = "Error" /\ Taken(p_fn, p_in.text) = {}

(***************************************************************************)
(* Properties of the loops (LoopSpec)                                      *)
(***************************************************************************)
InLoop == p_in.cls = "loop"
LoopDone == IF InLoop THEN p_out # NotCalled ELSE result # Running

\* an iteration that does not leave its loop leaves less input than it found
Consumes ==
    /\ (~InLoop /\ result' = Running) => Len(input') < Len(input)
    /\ (InLoop /\ p_out' = NotCalled) => Len(p_in'.text) < Len(p_in.text)

\* the iteration a loop is about to make either leaves the loop or goes on
\* with less input
Advance(it, in) == it.loop = "break" \/ Len(it.input) < Len(in)
Advances ==
    IF LoopDone THEN TRUE
    ELSE IF ~InLoop
    THEN \E it \in {iteration(full_input, input, spice)} :
            it.result # Running \/ Len(it.input) < Len(input)
    ELSE IF p_fn = "skip_blank_or_comment_lines"
    THEN Advance(skip_iteration(p_in.text), p_in.text)
    ELSE IF p_fn = "subckt"
    THEN Advance(subckt_iteration(p_in.text, p_in.acc), p_in.text)
    ELSE Advance(pwl_iteration(p_in.text, p_in.acc), p_in.text)

\* the iterations made so far are paid for by characters: a loop entered
\* with n characters goes on n times at most
Bounded ==
    IF InLoop THEN p_in.steps + Len(p_in.text) <= Len(p_in.start)
    ELSE Cardinality({i \in 1..Len(trace) : trace[i].tag = "Ok"}) + Len(input)
            <= Len(full_input)

\* what the loop is left with is what the function of the loop returns
LoopValue ==
    IF ~InLoop THEN result = read_spice(full_input)
    ELSE IF p_fn = "skip_blank_or_comment_lines"
    THEN p_out.val = skip_blank_or_comment_lines(p_in.start)
    ELSE IF p_fn = "subckt"
    THEN p_out = subckt_body(p_in.start, <<>>, <<>>)
    ELSE p_out = pwl_points(p_in.start)

\* C28: read_spice terminates: each iteration of the driver loop, of the
\* skipper of blank and comment lines, of the .SUBCKT body loop and of the
\* PWL pair loop either consumes at least one character of the remaining
\* input or leaves the loop with a result or an error, so that a loop
\* entered with n characters is left after n + 1 iterations at most, with
\* the value of the function it belongs to.
C28_EveryLoopIsLeft ==
    /\ [][Consumes]_vars
    /\ [](Advances /\ Bounded)
    /\ [](LoopDone => LoopValue)

\* the PWL loop was left in its second iteration, with two pairs
C28_Witness ==
    /\ InLoop /\ p_fn = "pwl_voltage" /\ p_out.tag = "Ok"
    /\ p_in.steps = 1 /\ Len(p_out.val) = 2
    /\ Len(p_in.text) < Len(p_in.start)

\* the .SUBCKT body loop read a component and an instance before .ENDS
C28_BodyLoopLeft ==
    /\ InLoop /\ p_fn = "subckt" /\ p_out.tag = "Ok"
    /\ Len(p_out.val.components) = 1 /\ Len(p_out.val.instances) = 1

\* the driver loop read the five statements of test_read_spice_basic
C28_DriverLoopLeft ==
    /\ ~InLoop /\ result.tag = "Ok" /\ Len(stmts) = 5 /\ Len(trace) = 5

\* the skipper went on three times before it was left
C28_SkipperLoopLeft ==
    /\ InLoop /\ p_fn = "skip_blank_or_comment_lines" /\ p_out # NotCalled
    /\ p_in.steps = 3

====
